---- MODULE Spec2Model ----
(***************************************************************************)
(* A TLA+ model of the wut4 four-state logic simulator (src/sim):          *)
(*   - the cycle scheduler of sim.c (simulate, execute) together with the  *)
(*     run-control API of api.c (halt, is_running, TspGetPor);             *)
(*   - the four-valued logic primitives of CORE/logic.c and the            *)
(*     arithmetic NOT of api.c / sib.c;                                    *)
(*   - the packed sib storage macros of api.h and the hooks of Sample.c.   *)
(*   - the part registry of part.c (make_comb, make_seq, bind) and        *)
(*     fatal() of util.c.                                                  *)
(*                                                                         *)
(* Specifications:                                                         *)
(*   Spec      the scheduler: simulate() stepping through hook tables      *)
(*   FairSpec  Spec plus weak fairness (the single thread keeps running)   *)
(*   LogicSpec the logic primitives applied to drawn operands              *)
(*   HookSpec  the Sample.c hooks applied to drawn net contents            *)
(*   PackSpec  the storage macros applied to drawn vectors and fields      *)
(*   PartSpec  netlist construction: parts made and bound until a pool     *)
(*             is exhausted                                                *)
(***************************************************************************)
EXTENDS Integers, Sequences, FiniteSets, TLC

VARIABLES
    \* ---- scheduler (sim.c, api.c)
    cycle,           \* sim.c:84 `cycle` / api.c:5 `g_cycle`
    clock,           \* sim.c:87 `clock`
    pc,              \* position of simulate() in its loop
    i,               \* loop index of execute()
    resolvers,       \* the four hook tables, sim.c:34-37
    trace_calls,     \* number of write_trace() invocations so far
    \* ---- history of the run, read only by the properties
    calls,           \* hooks invoked in the current cycle, in order
    executed,        \* value of the cycle counter at each loop entry
    completed,       \* number of full four-phase cycles finished
    halt_requested,  \* some hook has called halt()
    por_low_seen,    \* GetPOR() has read 0 at some point of the run
    \* ---- logic primitives (CORE/logic.c, api.c, sib.c)
    a0, a1,          \* operands handed to a primitive
    fn,              \* the primitive applied last
    res,             \* its result
    \* ---- Sample.c hooks over the packed net vector
    TspNets,         \* TspGen.c:15, an array of 64-bit words
    B1_state,        \* Sample.c:38, static storage of U1_rising_edge
    hook,            \* the Sample.c hook (or pair of hooks) applied last
    nets0,           \* TspNets as it was before that call
    \* ---- the storage macros of api.h applied to a drawn vector
    pk_vec,          \* the packed vector `sym`, an array of 64-bit words
    pk_old,          \* its contents before the macro was applied
    pk_s, pk_n,      \* start index and width, in sibs
    pk_v,            \* the value handed to SETN / SET1
    pk_op,           \* the macro applied last
    pk_ret,          \* what GETN / GET1 returned
    \* ---- the part registry (part.c)
    states,          \* part.c:12, the entries 0..next_state-1 of states[]
    next_state,      \* part.c:13
    binds,           \* part.c:15, the entries 0..next_bind-1 of binds[]
    next_bind,       \* part.c:16
    parts,           \* part.c:18, the entries 0..next_part-1 of parts[]
    next_part,       \* part.c:19
    wild,            \* a store has landed outside its array
    seq_period,      \* which of the drawn parts are sequential
    last,            \* the registry call made last, with its result
    returned,        \* the part indices handed out so far, each with its call
    \* ---- the trace writer (CORE/trace.c)
    trace_file,      \* CORE/trace.c:14, "NULL" or "open"
    fd_open,         \* the trace file is open in the process
    tfile,           \* the bytes of the trace file, offset 0 first
    tpos,            \* the position of the stream
    netlist,         \* the bytes of the netlist file
    msgs,            \* number of msg() calls made
    tr_state,        \* "start", "tracing" or "closed"
    tr_calls,        \* write_trace() calls made
    fwrites,         \* fwrite() calls made by write_trace()
    snaps,           \* the net values handed to the successful fwrite()s
    failures,        \* I/O operations that have failed
    \* ---- the exerciser firmware's serial task (exer/fw/serial_task.h)
    state,           \* serial_task.h:153
    rcvBuf,          \* serial_task.h:43, [head, tail, body]
    xmtBuf,          \* serial_task.h:44
    inProgress,      \* serial_task.h:160, "none" or the handler's name
    pb,              \* serial_task.h:250, [inuse, remaining, next]
    panicked,        \* <<>> or the arguments of the panic() that stopped it
    host,            \* the byte values the host sends in this run
    budget,          \* number of bytes the host has yet to send
    queued,          \* bytes put in the transmit ring by the last call
    ops,             \* register operations performed by the last call
    handler,         \* handler dispatched by the last call
    cmd,             \* command bytes that handler copied from the ring
    dropped,         \* unsent bytes discarded by stateUnsync() in the last call
    seen,            \* byte at the receive ring's tail when the last call
                     \* came to its dispatch, -1 for an empty ring
    space,           \* avail(xmtBuf) at that point
    held,            \* len(rcvBuf) at that point
    reply,           \* bytes queued for the poll being answered
    \* ---- one ring buffer driven call by call (RingSpec)
    ring,            \* a RING, [head, tail, body]
    fifo,            \* the bytes put and not yet consumed, oldest first
    stamp,           \* the next byte to arrive
    resets,          \* calls of stateUnsync() so far
    ring_panic,      \* 0 or the number of the panic() that stopped it
    \* ---- the LS283 adder of SCsim (AdderSpec)
    at,              \* where the thread add() waits
    RST,             \* the reset signal at the last clock edge
    pins,            \* the input signals A1..A4, B1..B4, Cin at that edge
    outs,            \* the output signals Sum1..Sum4, Cout
    edges,           \* rising clock edges so far
    \* ---- util.c
    exited           \* fatal() has printed its diagnostic and called exit(1)

schedVars == <<cycle, clock, pc, i, resolvers, trace_calls,
               calls, executed, completed, halt_requested, por_low_seen>>
logicVars == <<a0, a1, fn, res>>
hookVars  == <<TspNets, B1_state, hook, nets0>>
packVars  == <<pk_vec, pk_old, pk_s, pk_n, pk_v, pk_op, pk_ret>>
partVars  == <<states, next_state, binds, next_bind, parts, next_part,
               wild, seq_period, last, returned>>
traceVars == <<trace_file, fd_open, tfile, tpos, netlist, msgs, tr_state,
               tr_calls, fwrites, snaps, failures>>
ringVars == <<ring, fifo, stamp, resets, ring_panic>>
adderVars == <<at, RST, pins, outs, edges>>
serialVars == <<ringVars, adderVars, state, rcvBuf, xmtBuf, inProgress, pb, panicked, host, budget,
                queued, ops, handler, cmd, dropped, seen, space, held,
                reply>>
exitVars  == <<exited>>
vars == <<schedVars, logicVars, hookVars, packVars, partVars, traceVars,
          serialVars, exitVars>>

(***************************************************************************)
(* Program constants                                                       *)
(***************************************************************************)
max_cycles == 10
por_cycles == 2
MAX_RESOLVERS == 10
ENABLE_TRACING == 1

\* Bound of the model: the number of hooks registered per phase in Init.
MaxHooks == 2

Phases == <<"rising_edge", "clock_is_high", "falling_edge", "clock_is_low">>
PhaseSet == {Phases[k] : k \in 1..4}
Slots == 0..(MAX_RESOLVERS - 1)

(***************************************************************************)
(* Run control: api.c                                                      *)
(***************************************************************************)
\* uint16_t TspGetPor(void) { return g_cycle <= por_cycles; }
TspGetPor(c) == IF c <= por_cycles THEN 1 ELSE 0
GetPOR == TspGetPor(cycle)

\* uint16_t TspGetClk(void) { return clock; }
TspGetClk == clock

\* Mutant of is_running: an off-by-one loop test.
is_running_short(c) == c < max_cycles

\* int is_running(void) { return g_cycle <= max_cycles; }
\* (sim.c's loop test !halt(), with halt() == cycle > max_cycles, is the same)
is_running(c) == c <= max_cycles

\* Mutant of halt: the counter is set to the last running value.
halt_at_max == max_cycles

\* void halt(void) { g_cycle = 1 + max_cycles; }
halt == 1 + max_cycles

(***************************************************************************)
(* Hook tables.  A table is a zero-initialised static array of             *)
(* MAX_RESOLVERS function pointers; registration fills slots 0, 1, ...     *)
(* Handlers are opaque: a non-null slot j of phase p holds handler j + 1.  *)
(***************************************************************************)
Table(n) == [j \in Slots |-> IF j < n THEN j + 1 ELSE 0]

TableLen(t) == Cardinality({j \in Slots : t[j] # 0})

\* The hook invocations of one whole cycle, in the order the contract fixes.
RECURSIVE PhaseCalls(_, _)
PhaseCalls(p, n) ==
    IF n = 0 THEN <<>> ELSE Append(PhaseCalls(p, n - 1), <<p, n - 1>>)

FullCycle ==
    PhaseCalls(Phases[1], TableLen(resolvers[Phases[1]])) \o
    PhaseCalls(Phases[2], TableLen(resolvers[Phases[2]])) \o
    PhaseCalls(Phases[3], TableLen(resolvers[Phases[3]])) \o
    PhaseCalls(Phases[4], TableLen(resolvers[Phases[4]]))

IsPrefix(s, t) == Len(s) <= Len(t) /\ SubSeq(t, 1, Len(s)) = s

(***************************************************************************)
(* Initial state of the scheduler: statics are zero, tables registered.    *)
(***************************************************************************)
SchedInit ==
    /\ cycle = 0
    /\ clock = 0
    /\ pc = "init"
    /\ i = 0
    /\ \E n \in [PhaseSet -> 0..MaxHooks] :
          resolvers = [p \in PhaseSet |-> Table(n[p])]
    /\ trace_calls = 0
    /\ calls = <<>>
    /\ executed = <<>>
    /\ completed = 0
    /\ halt_requested = FALSE
    /\ por_low_seen = FALSE

\* The scheduler at rest, for the specifications that do not run it.
SchedRest ==
    /\ clock = 0
    /\ pc = "off"
    /\ i = 0
    /\ resolvers = [p \in PhaseSet |-> Table(0)]
    /\ trace_calls = 0
    /\ calls = <<>>
    /\ executed = <<>>
    /\ completed = 0
    /\ halt_requested = FALSE
    /\ por_low_seen = FALSE

SchedIdle == cycle = 0 /\ SchedRest

\* por_low_seen follows every change of the counter.
SeenLow(c) == por_low_seen \/ TspGetPor(c) = 0

(***************************************************************************)
(* simulate(), sim.c:219-244, one action per step of the loop              *)
(***************************************************************************)
\* for (cycle = 1; ...
SimulateStart ==
    /\ pc = "init"
    /\ cycle' = 1
    /\ pc' = "test"
    /\ por_low_seen' = SeenLow(1)
    /\ UNCHANGED <<clock, i, resolvers, trace_calls, calls, executed,
                   completed, halt_requested>>

\* ... !halt(); ...) { rising_edge();   -- the loop is entered
LoopEnter ==
    /\ pc = "test"
    /\ is_running(cycle)
    /\ pc' = Phases[1]
    /\ i' = 0
    /\ calls' = <<>>
    /\ executed' = Append(executed, cycle)
    /\ UNCHANGED <<cycle, clock, resolvers, trace_calls, completed,
                   halt_requested, por_low_seen>>

\* ... !halt(); ...)  -- the loop ends, simulate() returns 0
LoopExit ==
    /\ pc = "test"
    /\ ~is_running(cycle)
    /\ pc' = "done"
    /\ UNCHANGED <<cycle, clock, i, resolvers, trace_calls, calls, executed,
                   completed, halt_requested, por_low_seen>>

\* execute(): resolvers[i] != 0, the hook is called and returns.
HookReturns ==
    /\ pc \in PhaseSet
    /\ i \in Slots
    /\ resolvers[pc][i] # 0
    /\ calls' = Append(calls, <<pc, i>>)
    /\ i' = i + 1
    /\ UNCHANGED <<cycle, clock, pc, resolvers, trace_calls, executed,
                   completed, halt_requested, por_low_seen>>

\* execute(): resolvers[i] != 0, the hook is called and calls halt() (api.c).
HookHalts ==
    /\ pc \in PhaseSet
    /\ i \in Slots
    /\ resolvers[pc][i] # 0
    /\ calls' = Append(calls, <<pc, i>>)
    /\ i' = i + 1
    /\ cycle' = halt
    /\ halt_requested' = TRUE
    /\ por_low_seen' = SeenLow(halt)
    /\ UNCHANGED <<clock, pc, resolvers, trace_calls, executed, completed>>

\* Mutant of NextPhase: falling_edge() called before clock_is_high().
NextPhase_swapped(p) ==
    IF p = "rising_edge" THEN "falling_edge"
    ELSE IF p = "falling_edge" THEN "clock_is_high"
    ELSE IF p = "clock_is_high" THEN "clock_is_low"
    ELSE "incr"

\* The phase that follows p in simulate(), and the clock assignment made
\* between the two calls (sim.c:235-240).
NextPhase(p) ==
    IF p = "rising_edge" THEN "clock_is_high"
    ELSE IF p = "clock_is_high" THEN "falling_edge"
    ELSE IF p = "falling_edge" THEN "clock_is_low"
    ELSE "incr"

\* Mutant of ClockAfter: `clock = 0` before clock_is_low() left out.
ClockAfter_stuck(p, c) ==
    IF p = "rising_edge" THEN 1 ELSE c

ClockAfter(p, c) ==
    IF p = "rising_edge" THEN 1
    ELSE IF p = "falling_edge" THEN 0
    ELSE c

\* execute(): resolvers[i] == 0, the phase function returns.
PhaseEnd ==
    /\ pc \in PhaseSet
    /\ i \in Slots
    /\ resolvers[pc][i] = 0
    /\ pc' = NextPhase(pc)
    /\ clock' = ClockAfter(pc, clock)
    /\ i' = 0
    /\ UNCHANGED <<cycle, resolvers, trace_calls, calls, executed, completed,
                   halt_requested, por_low_seen>>

\* execute() with i = MAX_RESOLVERS: resolvers[i] lies past the table, the
\* read is undefined; here it yields 0 and the phase function returns.
PastTableEnd ==
    /\ pc \in PhaseSet
    /\ i = MAX_RESOLVERS
    /\ pc' = NextPhase(pc)
    /\ clock' = ClockAfter(pc, clock)
    /\ i' = 0
    /\ UNCHANGED <<cycle, resolvers, trace_calls, calls, executed, completed,
                   halt_requested, por_low_seen>>

\* execute() with i = MAX_RESOLVERS: the read yields something else and
\* execute() calls through it.
PastTableCall ==
    /\ pc \in PhaseSet
    /\ i = MAX_RESOLVERS
    /\ pc' = "wild"
    /\ UNCHANGED <<cycle, clock, i, resolvers, trace_calls, calls, executed,
                   completed, halt_requested, por_low_seen>>

\* ... cycle++)
Increment ==
    /\ pc = "incr"
    /\ cycle' = cycle + 1
    /\ completed' = completed + 1
    /\ pc' = "test"
    /\ por_low_seen' = SeenLow(cycle + 1)
    /\ UNCHANGED <<clock, i, resolvers, trace_calls, calls, executed,
                   halt_requested>>

(***************************************************************************)
(* Four-valued logic primitives: CORE/logic.c, api.c, sib.c                *)
(***************************************************************************)
BITS_PER_SIB == 2
HIGHZ == 2
UNDEF == 3
X == 3

\* Bound of the model: operands are raw words 0..MaxWord, masked by SIB().
MaxWord == 7

\* #define SIB(v) (v&3)
SIB(v) == v % 4

\* Mutant of and4s_table: 1 & X and X & 1 fall through to 1.
and4s_table_1X ==
    << 0, 0, 0, 0,
       0, 1, X, 1,
       0, X, X, X,
       0, 1, X, X >>

\* Mutant of xor4s_table: Z taken for 0.
xor4s_table_Z0 ==
    << 0, 1, 0, X,
       1, 0, 1, X,
       0, 1, 0, X,
       X, X, X, X >>

\* Mutant of not4s_table: the low bit inverted whatever the high bit is.
not4s_table_inv ==
    << 1, 0, 1, 0 >>

\* and4s_table[], rows indexed by a1, columns by a0, in the order 0 1 Z X
and4s_table ==
    << 0, 0, 0, 0,
       0, 1, X, X,
       0, X, X, X,
       0, X, X, X >>

or4s_table ==
    << 0, 1, X, X,
       1, 1, X, X,
       X, X, X, X,
       X, X, X, X >>

xor4s_table ==
    << 0, 1, X, X,
       1, 0, X, X,
       X, X, X, X,
       X, X, X, X >>

not4s_table ==
    << 1, 0, X, X >>

\* A C array is indexed from 0, a TLA+ sequence from 1.
\* SIB(a1)<<BITS_PER_SIB|SIB(a0): the two fields do not overlap, so | is +.
TableIndex(x0, x1) == SIB(x1) * (2 ^ BITS_PER_SIB) + SIB(x0)

and4s(x0, x1) == and4s_table[TableIndex(x0, x1) + 1]

or4s(x0, x1) == or4s_table[TableIndex(x0, x1) + 1]

xor4s(x0, x1) == xor4s_table[TableIndex(x0, x1) + 1]

not4s(x0) == not4s_table[SIB(x0) + 1]

\* Mutant of NOT: the test of the undefined/high-Z bit dropped.
NOT_nocheck(sib) == 1 - (sib % 2)

\* api.c: inline uint64_t NOT(int sib) { return (sib&0x2) ? UNDEF : ~sib&1; }
NOT(sib) == IF (sib \div 2) % 2 # 0 THEN UNDEF ELSE 1 - (sib % 2)

\* sib.c: the same function, defined a second time
NOT_sib(sib) == IF (sib \div 2) % 2 # 0 THEN UNDEF ELSE 1 - (sib % 2)

LogicInit ==
    /\ a0 \in 0..MaxWord
    /\ a1 \in 0..MaxWord
    /\ fn = "none"
    /\ res = 0

Apply_and4s == fn' = "and4s" /\ res' = and4s(a0, a1) /\ UNCHANGED <<a0, a1>>
Apply_or4s == fn' = "or4s" /\ res' = or4s(a0, a1) /\ UNCHANGED <<a0, a1>>
Apply_xor4s == fn' = "xor4s" /\ res' = xor4s(a0, a1) /\ UNCHANGED <<a0, a1>>
Apply_not4s == fn' = "not4s" /\ res' = not4s(a0) /\ UNCHANGED <<a0, a1>>
Apply_NOT == fn' = "NOT" /\ res' = NOT(a0) /\ UNCHANGED <<a0, a1>>
Apply_NOT_sib == fn' = "NOT_sib" /\ res' = NOT_sib(a0) /\ UNCHANGED <<a0, a1>>

(***************************************************************************)
(* Packed sib storage: api.h.  A word is uint64_t; it is modelled by its   *)
(* bits, bit 0 the least significant, so that shifts lose what C loses.    *)
(***************************************************************************)
TARGET_WORD_SIZE == 64
SPW_LOG2 == 5
SPW_MASK == 31
SIBS_PER_WORD == TARGET_WORD_SIZE \div BITS_PER_SIB

BitPos == 0..(TARGET_WORD_SIZE - 1)

\* The word holding the non-negative number v (v below 2^30).
U64(v) == [b \in BitPos |-> IF b < 30 THEN (v \div (2 ^ b)) % 2 ELSE 0]

\* The number a word holds, for a word whose bits 30 and up are clear.
RECURSIVE ValFrom(_, _)
ValFrom(w, b) == IF b > 29 THEN 0 ELSE w[b] + 2 * ValFrom(w, b + 1)

Val(w) == ValFrom(w, 0)

\* w << k and w >> k on uint64_t, 0 <= k < 64
Shl(w, k) == [b \in BitPos |-> IF b >= k THEN w[b - k] ELSE 0]
Shr(w, k) == [b \in BitPos |-> IF b + k < TARGET_WORD_SIZE THEN w[b + k] ELSE 0]
AndW(v, w) == [b \in BitPos |-> v[b] * w[b]]
OrW(v, w) == [b \in BitPos |-> IF v[b] = 1 \/ w[b] = 1 THEN 1 ELSE 0]
NotW(w) == [b \in BitPos |-> 1 - w[b]]

\* #define WORD(s) ((s)>>SPW_LOG2)
WORD(s) == s \div (2 ^ SPW_LOG2)
\* #define POS(s) ((s)&SPW_MASK)      SPW_MASK + 1 is a power of two
POS(s) == s % (SPW_MASK + 1)
\* #define BITPOS(s) (POS(s)*BITS_PER_SIB)
BITPOS(s) == POS(s) * BITS_PER_SIB
\* #define BOUND(v,m) ((v)&(m))
BOUND(v, m) == AndW(v, m)
\* #define MASK(n) ((1ULL<<(BITS_PER_SIB*n))-1ULL)   for BITS_PER_SIB*n < 64
MASK(n) == [b \in BitPos |-> IF b < BITS_PER_SIB * n THEN 1 ELSE 0]

\* #define GET1(sym, s) ((sym[WORD(s)]>>BITPOS(s))&MASK(1))
GET1(sym, s) == AndW(Shr(sym[WORD(s)], BITPOS(s)), MASK(1))

\* #define GETN(sym, s, n) ((sym[WORD(s)]>>BITPOS(s))&MASK(n))
GETN(sym, s, n) == AndW(Shr(sym[WORD(s)], BITPOS(s)), MASK(n))

\* #define SETN(sym, s, n, v) (sym[WORD(s)]&=~(MASK(n)<<BITPOS(s)),
\*                             sym[WORD(s)]|=(BOUND(v,MASK(n))<<BITPOS(s)))
SETN(sym, s, n, v) ==
    LET cleared == AndW(sym[WORD(s)], NotW(Shl(MASK(n), BITPOS(s))))
    IN  [sym EXCEPT ![WORD(s)] =
            OrW(cleared, Shl(BOUND(v, MASK(n)), BITPOS(s)))]

\* #define SET1(sym, s, v): SETN with MASK(1)
SET1(sym, s, v) ==
    LET cleared == AndW(sym[WORD(s)], NotW(Shl(MASK(1), BITPOS(s))))
    IN  [sym EXCEPT ![WORD(s)] =
            OrW(cleared, Shl(BOUND(v, MASK(1)), BITPOS(s)))]

\* getnet/setnet and getbus/setbus are the generated aliases of GET1/SET1
\* and GETN/SETN on TspNets (api.h:34-35).
getnet(nets, s) == GET1(nets, s)
setnet(nets, s, v) == SET1(nets, s, v)
getbus(nets, s, n) == GETN(nets, s, n)
setbus(nets, s, n, v) == SETN(nets, s, n, v)

\* The sib stored at index s, as a number 0..3
SibAt(sym, s) == Val(GET1(sym, s))

(***************************************************************************)
(* The sample design: net indices as generated in TspGen.h, hooks of       *)
(* Sample.c                                                                *)
(***************************************************************************)
NETS_ELEMENT_COUNT == 1
U2_3 == 0
U2_6 == 1
U2_8 == 2
U2_11 == 3
B1 == 8
B1_SIZE == 4
\* The value U1 loads while POR is asserted (Sample.c:40, 0x03)
U1_POR_VALUE == 3

\* Bound of the model: the hooks are applied in cycles 1..MaxHookCycle.
MaxHookCycle == 3

ZeroWord == [b \in BitPos |-> 0]
InputNets == {U2_3, U2_6, U2_8, U2_11}

\* void U1_rising_edge(void), Sample.c:37-49: the new B1_state and TspNets
U1_B1_state(nets, bstate, c) ==
    IF TspGetPor(c) # 0
    THEN SETN(bstate, B1, B1_SIZE, U64(U1_POR_VALUE))
    ELSE LET s0 == SET1(bstate, 0, getnet(nets, U2_3))
             s1 == SET1(s0, 1, getnet(nets, U2_6))
             s2 == SET1(s1, 2, U64(NOT(Val(getnet(nets, U2_8)))))
         IN  SET1(s2, 3, U64(NOT(Val(getnet(nets, U2_11)))))

U1_TspNets(nets, bstate, c) ==
    setbus(nets, B1, B1_SIZE, GETN(U1_B1_state(nets, bstate, c), B1, B1_SIZE))

\* Net contents drawn for the hooks: every value of the four input nets,
\* and the bus B1 holding one sib value in all its positions.
DrawnNets(in, fill) ==
    [w \in 0..(NETS_ELEMENT_COUNT - 1) |->
        [b \in BitPos |->
            LET s == w * SIBS_PER_WORD + (b \div BITS_PER_SIB)
                v == IF s \in InputNets THEN in[s]
                     ELSE IF s >= B1 /\ s < B1 + B1_SIZE THEN fill
                     ELSE 0
            IN  (v \div (2 ^ (b % BITS_PER_SIB))) % 2]]

HookInit ==
    /\ \E in \in [InputNets -> 0..3], fill \in 0..3 :
          TspNets = DrawnNets(in, fill)
    /\ B1_state = [w \in 0..0 |-> ZeroWord]
    /\ hook = "none"
    /\ nets0 = TspNets

Call_U1_rising_edge ==
    /\ hook' = "U1_rising_edge"
    /\ B1_state' = U1_B1_state(TspNets, B1_state, cycle)
    /\ TspNets' = U1_TspNets(TspNets, B1_state, cycle)
    /\ nets0' = TspNets

\* #define GetVCC() 1
GetVCC == 1

\* ((in1&2)|(in2&2)) ? UNDEF : in1^in2, the value the four gate hooks store
GateOut(in1, in2) ==
    IF (in1 \div 2) % 2 # 0 \/ (in2 \div 2) % 2 # 0
    THEN UNDEF
    ELSE (in1 + in2) % 2

\* void N8_U2_3_clock_is_high(void), Sample.c:51-55
N8_U2_3_clock_is_high(nets) ==
    setnet(nets, U2_3, U64(GateOut(GetVCC, Val(getnet(nets, B1 + 0)))))

\* void N9_U2_6_clock_is_high(void), Sample.c:57-61
N9_U2_6_clock_is_high(nets) ==
    setnet(nets, U2_6,
           U64(GateOut(Val(getnet(nets, U2_3)), Val(getnet(nets, B1 + 1)))))

\* void N10_U2_8_clock_is_high(void), Sample.c:63-67
N10_U2_8_clock_is_high(nets) ==
    setnet(nets, U2_6,
           U64(GateOut(Val(getnet(nets, U2_6)), Val(getnet(nets, B1 + 2)))))

\* void N11_U2_11_clock_is_high(void), Sample.c:69-73
N11_U2_11_clock_is_high(nets) ==
    setnet(nets, U2_8,
           U64(GateOut(Val(getnet(nets, U2_8)), Val(getnet(nets, B1 + 3)))))

\* One hook called on the drawn nets
CallHook(name, after) ==
    /\ hook = "none"
    /\ hook' = name
    /\ TspNets' = after
    /\ nets0' = TspNets
    /\ UNCHANGED B1_state

Call_N8 == CallHook("N8_U2_3", N8_U2_3_clock_is_high(TspNets))
Call_N9 == CallHook("N9_U2_6", N9_U2_6_clock_is_high(TspNets))
Call_N10 == CallHook("N10_U2_8", N10_U2_8_clock_is_high(TspNets))
Call_N11 == CallHook("N11_U2_11", N11_U2_11_clock_is_high(TspNets))

\* execute() on a clock_is_high table holding N8 and N9, registered in
\* either order (sim.c:103-107)
Call_N8_N9 ==
    CallHook("N8_U2_3, N9_U2_6",
             N9_U2_6_clock_is_high(N8_U2_3_clock_is_high(TspNets)))

Call_N9_N8 ==
    CallHook("N9_U2_6, N8_U2_3",
             N8_U2_3_clock_is_high(N9_U2_6_clock_is_high(TspNets)))

(***************************************************************************)
(* The storage macros applied to a vector of several words, with every      *)
(* start index and width.  MASK(n) shifts a 64-bit 1 by 2n; for n >= 32     *)
(* the shift count reaches the width of the type, which C leaves undefined: *)
(* a build either takes the count modulo 64 or shifts the bit out.          *)
(***************************************************************************)
\* Bound of the model: the drawn vector has 1..MaxWords words.
MaxWords == 2

ShiftOutcomes == {"mod64", "zero"}

\* w - 1 on uint64_t
Dec(w) ==
    [b \in BitPos |->
        IF \A j \in 0..(b - 1) : w[j] = 0 THEN 1 - w[b] ELSE w[b]]

\* 1ULL << k
ONE_SHL(k, out) ==
    IF k < TARGET_WORD_SIZE THEN Shl(U64(1), k)
    ELSE IF out = "mod64" THEN Shl(U64(1), k % TARGET_WORD_SIZE)
    ELSE ZeroWord

\* #define MASK(n) ((1ULL<<(BITS_PER_SIB*n))-1ULL), any n
MASK_any(n, out) == Dec(ONE_SHL(BITS_PER_SIB * n, out))

\* GETN with the mask of any width
GETN_any(sym, s, n, out) ==
    AndW(Shr(sym[WORD(s)], BITPOS(s)), MASK_any(n, out))

\* Mutant of SETN_any: the value is not BOUNDed by the mask before the OR.
SETN_unbounded(sym, s, n, v, out) ==
    LET m == MASK_any(n, out)
        cleared == AndW(sym[WORD(s)], NotW(Shl(m, BITPOS(s))))
    IN  [sym EXCEPT ![WORD(s)] = OrW(cleared, Shl(v, BITPOS(s)))]

\* SETN with the mask of any width
SETN_any(sym, s, n, v, out) ==
    LET m == MASK_any(n, out)
        cleared == AndW(sym[WORD(s)], NotW(Shl(m, BITPOS(s))))
    IN  [sym EXCEPT ![WORD(s)] = OrW(cleared, Shl(BOUND(v, m), BITPOS(s)))]

\* A word whose 32 sibs all hold the sib value p
PatWord(p) == [b \in BitPos |-> (p \div (2 ^ (b % BITS_PER_SIB))) % 2]

\* The declared capacity of the vector, in sibs
Capacity(sym) == Cardinality(DOMAIN sym) * SIBS_PER_WORD

\* The drawn calls: a vector of 1..MaxWords words filled with 0 or X, a
\* start index inside the vector, a width of 1..32 sibs (the widest value
\* a uint64_t carries) that may run past the end of the vector, and a value
\* that fits the width (every sib 1) or has bits set above it (every sib Z).
PackInit ==
    /\ \E nw \in 1..MaxWords, fill \in {0, X} :
          pk_vec = [w \in 0..(nw - 1) |-> PatWord(fill)]
    /\ pk_old = pk_vec
    /\ pk_s \in 0..(Capacity(pk_vec) - 1)
    /\ pk_n \in 1..SIBS_PER_WORD
    /\ pk_v \in {AndW(PatWord(1), MASK(pk_n)), PatWord(HIGHZ)}
    /\ pk_op = "none"
    /\ pk_ret = ZeroWord

\* SETN(vec, s, n, v) followed by GETN(vec, s, n)
Call_SETN ==
    /\ pk_op = "none"
    /\ \E out \in ShiftOutcomes :
          /\ pk_vec' = SETN_any(pk_vec, pk_s, pk_n, pk_v, out)
          /\ pk_ret' = GETN_any(pk_vec', pk_s, pk_n, out)
    /\ pk_op' = "SETN"
    /\ UNCHANGED <<pk_old, pk_s, pk_n, pk_v, exited>>

\* SET1(vec, s, v) followed by GET1(vec, s)
Call_SET1 ==
    /\ pk_op = "none"
    /\ pk_vec' = SET1(pk_vec, pk_s, pk_v)
    /\ pk_ret' = GET1(pk_vec', pk_s)
    /\ pk_op' = "SET1"
    /\ UNCHANGED <<pk_old, pk_s, pk_n, pk_v, exited>>

\* GETN(vec, s, n) alone
Call_GETN ==
    /\ pk_op = "none"
    /\ \E out \in ShiftOutcomes :
          pk_ret' = GETN_any(pk_vec, pk_s, pk_n, out)
    /\ pk_op' = "GETN"
    /\ UNCHANGED <<pk_vec, pk_old, pk_s, pk_n, pk_v, exited>>

(***************************************************************************)
(* The part registry: part.c, part.h.  Each of the three static arrays is   *)
(* held as the function of its entries 0..next-1; the entries above are     *)
(* zero, as C initialises them, until an allocation writes them.            *)
(***************************************************************************)
MAX_WIDTH == 32
MAX_STATE == 128
MAX_PART == 64
N_BIND == 8
MAX_BIND == 256
ALL_BITS == "0xFFFFFFFFFFFFFFFF"
NO_BITS == "0"

\* Bound of the model: every k-th drawn part is sequential, k in
\* 1..MaxPeriod, or none is (k = 0).
MaxPeriod == 2

ZeroState == [values |-> NO_BITS, undefs |-> NO_BITS, highzs |-> NO_BITS,
              part |-> 0]
ZeroBind == [from |-> 0, offset |-> 0, n_bits |-> 0]
ZeroPart == [inputs |-> [k \in 0..(N_BIND - 1) |-> 0], next_bind |-> 0,
             future |-> 0, output |-> 0]

\* arr[idx] = val, where idx is the first entry not yet written
Store(arr, idx, val) ==
    [k \in 0..idx |-> IF k = idx THEN val ELSE arr[k]]

NoCall == [op |-> "none", from |-> 0, to |-> 0, offset |-> 0, n_bits |-> 0,
           ret |-> 0]
MakeCall(name, p) == [NoCall EXCEPT !.op = name, !.ret = p]
BindCall(from, to, offset, n_bits, b) ==
    [op |-> "bind", from |-> from, to |-> to, offset |-> offset,
     n_bits |-> n_bits, ret |-> b]

\* The history of returned part indices, with p returned by the call `name`
Returns(hist, p, name) ==
    [k \in (DOMAIN hist) \cup {p} |-> IF k = p THEN name ELSE hist[k]]

PartInit ==
    /\ states = [k \in 0..0 |-> ZeroState]
    /\ next_state = 1
    /\ binds = [k \in 0..0 |-> ZeroBind]
    /\ next_bind = 1
    /\ parts = [k \in 0..0 |-> ZeroPart]
    /\ next_part = 1
    /\ wild = FALSE
    /\ seq_period \in 0..MaxPeriod
    /\ last = NoCall
    /\ returned = <<>>

\* Mutant of make_state: the new state is left with no bit undefined.
make_state_defined(p) == [ZeroState EXCEPT !.part = p]

\* make_state(p): the entry written at states[next_state]
make_state(p) == [ZeroState EXCEPT !.part = p, !.undefs = ALL_BITS]

\* Mutant of NewComb: future is given the output state.
NewComb_shared(s) == [ZeroPart EXCEPT !.output = s, !.future = s]

\* make_comb(): the entry written at parts[next_part], s its output state
NewComb(s) == [ZeroPart EXCEPT !.output = s, !.future = 0]

\* P_IDX make_comb(name, eval, edge)
MakeComb ==
    /\ ~exited /\ ~wild
    /\ IF next_part >= MAX_PART
       THEN /\ exited' = TRUE
            /\ last' = MakeCall("make_comb", 0)
            /\ UNCHANGED <<states, next_state, parts, next_part, returned>>
       ELSE IF next_state >= MAX_STATE
       THEN \* fatal() inside make_state: the slot is already taken
            /\ exited' = TRUE
            /\ last' = MakeCall("make_comb", 0)
            /\ next_part' = next_part + 1
            /\ parts' = Store(parts, next_part, ZeroPart)
            /\ UNCHANGED <<states, next_state, returned>>
       ELSE /\ next_part' = next_part + 1
            /\ next_state' = next_state + 1
            /\ states' = Store(states, next_state, make_state(next_part))
            /\ parts' = Store(parts, next_part, NewComb(next_state))
            /\ last' = MakeCall("make_comb", next_part)
            /\ returned' = Returns(returned, next_part, "make_comb")
            /\ UNCHANGED exited
    /\ UNCHANGED <<binds, next_bind, wild, seq_period>>

\* Mutant of MakeSeq: make_state is called twice after make_comb.
MakeSeq_twice ==
    /\ ~exited /\ ~wild
    /\ next_part < MAX_PART /\ next_state + 2 < MAX_STATE
    /\ next_part' = next_part + 1
    /\ next_state' = next_state + 3
    /\ states' = Store(Store(Store(states, next_state,
                                   make_state(next_part)),
                             next_state + 1, make_state(next_part)),
                       next_state + 2, make_state(next_part))
    /\ parts' = Store(parts, next_part,
                      [NewComb(next_state) EXCEPT !.future = next_state + 2])
    /\ last' = MakeCall("make_seq", next_part)
    /\ returned' = Returns(returned, next_part, "make_seq")
    /\ UNCHANGED <<exited, binds, next_bind, wild, seq_period>>

\* P_IDX make_seq(name, eval, edge): make_comb, then a second state
MakeSeq ==
    /\ ~exited /\ ~wild
    /\ IF next_part >= MAX_PART
       THEN /\ exited' = TRUE
            /\ last' = MakeCall("make_seq", 0)
            /\ UNCHANGED <<states, next_state, parts, next_part, returned>>
       ELSE IF next_state >= MAX_STATE
       THEN /\ exited' = TRUE
            /\ last' = MakeCall("make_seq", 0)
            /\ next_part' = next_part + 1
            /\ parts' = Store(parts, next_part, ZeroPart)
            /\ UNCHANGED <<states, next_state, returned>>
       ELSE IF next_state + 1 >= MAX_STATE
       THEN \* the output state is made, fatal() in the second make_state
            /\ exited' = TRUE
            /\ last' = MakeCall("make_seq", 0)
            /\ next_part' = next_part + 1
            /\ next_state' = next_state + 1
            /\ states' = Store(states, next_state, make_state(next_part))
            /\ parts' = Store(parts, next_part, NewComb(next_state))
            /\ UNCHANGED returned
       ELSE /\ next_part' = next_part + 1
            /\ next_state' = next_state + 2
            /\ states' = Store(Store(states, next_state,
                                     make_state(next_part)),
                               next_state + 1, make_state(next_part))
            /\ parts' = Store(parts, next_part,
                              [NewComb(next_state) EXCEPT
                                   !.future = next_state + 1])
            /\ last' = MakeCall("make_seq", next_part)
            /\ returned' = Returns(returned, next_part, "make_seq")
            /\ UNCHANGED exited
    /\ UNCHANGED <<binds, next_bind, wild, seq_period>>

\* bind(): pval = &parts[states[from].part], the part whose next_bind is
\* tested against N_BIND and whose inputs[] receives the new binding
BindOwner(from, to) == states[from].part

\* void bind(S_IDX from, P_IDX to, INDEX offset, INDEX n_bits)
Bind(from, to, offset, n_bits) ==
    LET pv == BindOwner(from, to)
        b == next_bind
        n == parts[pv].next_bind
    IN  /\ ~exited /\ ~wild
        /\ IF parts[to].next_bind >= MAX_BIND \/ n >= N_BIND
           THEN /\ exited' = TRUE
                /\ last' = BindCall(from, to, offset, n_bits, 0)
                /\ UNCHANGED <<binds, next_bind, parts, wild>>
           ELSE /\ next_bind' = b + 1
                /\ IF b < MAX_BIND
                   THEN /\ binds' = Store(binds, b,
                                [from |-> from, offset |-> offset,
                                 n_bits |-> n_bits])
                        /\ UNCHANGED wild
                   ELSE \* binds[b] is not an element of binds[]
                        /\ wild' = TRUE
                        /\ UNCHANGED binds
                /\ parts' = [parts EXCEPT ![pv].next_bind = n + 1,
                                          ![pv].inputs[n] = b]
                /\ last' = BindCall(from, to, offset, n_bits, b)
                /\ UNCHANGED exited
        /\ UNCHANGED <<states, next_state, next_part, seq_period, returned>>

\* The drawn construction: the next part is sequential or combinational as
\* seq_period says; a bind takes the output state of the lowest part whose
\* inputs[] has room (of the newest part when none has), the bits from
\* offset to the top of the state, and as destination the first or the
\* newest part.
NextIsSeq == seq_period > 0 /\ next_part % seq_period = 0

Made == 1..(next_part - 1)

DrawnSource ==
    LET room == {p \in Made : parts[p].next_bind < N_BIND}
        q == IF room = {} THEN next_part - 1
             ELSE CHOOSE p \in room : \A r \in room : p <= r
    IN  parts[q].output

DrawnOffset(from) == from % MAX_WIDTH

DrawnBind ==
    /\ Made # {}
    /\ \E to \in {1, next_part - 1} :
          Bind(DrawnSource, to, DrawnOffset(DrawnSource),
               MAX_WIDTH - DrawnOffset(DrawnSource))

PartIdle ==
    /\ states = <<>> /\ next_state = 0 /\ binds = <<>> /\ next_bind = 0
    /\ parts = <<>> /\ next_part = 0 /\ wild = FALSE /\ seq_period = 0
    /\ last = <<>> /\ returned = <<>>

(***************************************************************************)
(* The trace writer: CORE/trace.c, CORE/trace.h, TspGen.c.  The file is the *)
(* sequence of its bytes; every stdio call that reports failure to the      *)
(* code may fail.                                                           *)
(***************************************************************************)
\* sizeof(header_t), CORE/trace.h:15-21
HEADER_SIZE == 32
\* get_nets_element_size(): sizeof(uint64_t)
nets_element_size == 8
\* get_nets_element_count()
nets_element_count == NETS_ELEMENT_COUNT
\* sizeof(unsigned long long), the padding unit of write_header()
PAD_UNIT == 8

\* Bounds of the model: the netlist file has 0..MaxNetlist bytes and
\* write_trace() is called up to MaxTraces times.
MaxNetlist == 9
MaxTraces == 3

\* A uint32_t as it lies in the file (little-endian host)
LE32(v) ==
    << v % 256, (v \div 256) % 256, (v \div 65536) % 256,
       (v \div 16777216) % 256 >>

\* The uint32_t read back from four bytes of the file
FromLE32(f, off) ==
    f[off + 1] + 256 * f[off + 2] + 65536 * f[off + 3] + 16777216 * f[off + 4]

Zeros(n) == [k \in 1..n |-> 0]

\* The bytes of the element array `nets` whose word 0 holds the value v
NetBytes(v) ==
    [k \in 1..(nets_element_size * nets_element_count) |->
        IF k <= 3 THEN (v \div (256 ^ (k - 1))) % 256 ELSE 0]

\* fputc / fwrite of `bytes` at position pos of a stream over file f; a
\* gap left by fseek reads as zero
PutAt(f, pos, bytes) ==
    LET end == IF Len(f) > pos + Len(bytes) THEN Len(f) ELSE pos + Len(bytes)
    IN  [k \in 1..end |->
            IF k > pos /\ k <= pos + Len(bytes) THEN bytes[k - pos]
            ELSE IF k <= Len(f) THEN f[k] ELSE 0]

\* round_up = sizeof(unsigned long long) - (netlist_size&0x7)
RoundUp(n) == PAD_UNIT - (n % 8)

\* Mutant of NetlistSize: the round-up to the 8-byte boundary left out.
NetlistSize_unpadded(nbytes) == nbytes + 1

\* netlist_size as write_header() computes it from the bytes copied
NetlistSize(nbytes) == (nbytes + 1) + RoundUp(nbytes + 1)

\* header_t as write_header() fills it
Header(size) ==
    <<131, 130, 129, 128>> \o LE32(size) \o LE32(nets_element_size)
        \o LE32(nets_element_count) \o Zeros(16)

\* Mutant of Suspended: the stream pointer is kept after a failed write.
Suspended_kept == "open"

\* trace_file = NULL after a failure
Suspended == "NULL"

TraceInit ==
    /\ trace_file = "NULL"
    /\ fd_open = FALSE
    /\ tfile = <<>>
    /\ tpos = 0
    /\ \E nbytes \in 0..MaxNetlist : netlist = [k \in 1..nbytes |-> 65 + k]
    /\ msgs = 0
    /\ tr_state = "start"
    /\ tr_calls = 0
    /\ fwrites = 0
    /\ snaps = <<>>
    /\ failures = 0

\* void initialize_tracing(void) with write_header() inlined.  open_ok:
\* fopen of the trace file; list_ok: fopen of the netlist file; put_ok: the
\* fputc calls all stored their byte; hdr_ok: fwrite of the header.
InitializeTracing ==
    /\ tr_state = "start"
    /\ tr_state' = "tracing"
    /\ \E open_ok, list_ok, put_ok, hdr_ok \in BOOLEAN :
        LET size == NetlistSize(Len(netlist))
            section == netlist \o Zeros(size - Len(netlist))
            copied == IF put_ok THEN section
                      ELSE SubSeq(section, 1, Len(section) - 1)
            body == PutAt(<<>>, HEADER_SIZE, copied)
            start_of_trace == Len(body)
        IN  IF ~open_ok
            THEN /\ msgs' = msgs + 1
                 /\ failures' = failures + 1
                 /\ trace_file' = "NULL"
                 /\ UNCHANGED <<fd_open, tfile, tpos>>
            ELSE IF ~list_ok
            THEN /\ msgs' = msgs + 1
                 /\ failures' = failures + 1
                 /\ trace_file' = "NULL"
                 /\ fd_open' = FALSE
                 /\ tfile' = <<>>
                 /\ tpos' = 0
            ELSE IF start_of_trace # HEADER_SIZE + size
            THEN /\ msgs' = msgs + 1
                 /\ failures' = failures + 1
                 /\ trace_file' = "NULL"
                 /\ fd_open' = FALSE
                 /\ tfile' = body
                 /\ tpos' = start_of_trace
            ELSE IF ~hdr_ok
            THEN /\ msgs' = msgs + 1
                 /\ failures' = failures + 1
                 /\ trace_file' = "NULL"
                 /\ fd_open' = FALSE
                 /\ tfile' = body
                 /\ tpos' = 0
            ELSE /\ trace_file' = "open"
                 /\ fd_open' = TRUE
                 /\ tfile' = PutAt(body, 0, Header(size))
                 /\ tpos' = start_of_trace
                 /\ UNCHANGED <<msgs, failures>>
    /\ UNCHANGED <<netlist, tr_calls, fwrites, snaps, exited>>

\* void write_trace(void), the net vector holding the value v
WriteTrace ==
    /\ tr_state = "tracing"
    /\ tr_calls < MaxTraces
    /\ tr_calls' = tr_calls + 1
    /\ IF trace_file # "NULL"
       THEN /\ fwrites' = fwrites + 1
            /\ \E ok \in BOOLEAN, v \in {1, 2} :
                  IF ok
                  THEN /\ tfile' = PutAt(tfile, tpos, NetBytes(v))
                       /\ tpos' = tpos + nets_element_size * nets_element_count
                       /\ snaps' = Append(snaps, v)
                       /\ UNCHANGED <<trace_file, fd_open, msgs, failures>>
                  ELSE /\ msgs' = msgs + 1
                       /\ failures' = failures + 1
                       /\ fd_open' = FALSE
                       /\ trace_file' = Suspended
                       /\ UNCHANGED <<tfile, tpos, snaps>>
       ELSE UNCHANGED <<trace_file, fd_open, tfile, tpos, msgs, fwrites,
                        snaps, failures>>
    /\ UNCHANGED <<netlist, tr_state, exited>>

\* void close_trace(void)
CloseTrace ==
    /\ tr_state = "tracing"
    /\ tr_state' = "closed"
    /\ fd_open' = IF trace_file # "NULL" THEN FALSE ELSE fd_open
    /\ UNCHANGED <<trace_file, tfile, tpos, netlist, msgs, tr_calls, fwrites,
                   snaps, failures, exited>>

TraceIdle ==
    /\ trace_file = "NULL" /\ fd_open = FALSE /\ tfile = <<>> /\ tpos = 0
    /\ netlist = <<>> /\ msgs = 0 /\ tr_state = "idle" /\ tr_calls = 0
    /\ fwrites = 0 /\ snaps = <<>> /\ failures = 0

(***************************************************************************)
(* The chip exerciser's serial task: exer/fw/serial_task.h.  A call of a   *)
(* function of the firmware is an operator on the record m of the task's   *)
(* variables; m.ret is the State a handler returns.  panic() does not      *)
(* return: once m.panicked is set every later statement is skipped.        *)
(***************************************************************************)
RING_BUF_SIZE == 16
STCMD_BASE == 224
STCMD_SYNC == 239
STERR_BADCMD == 134
PROTOCOL_VERSION == 11
MAX_FIXED_RESPONSE_BYTES == 2
MAX_REGISTER_ID == 15

STATE_UNSYNC == "STATE_UNSYNC"
STATE_DESYNCHRONIZING == "STATE_DESYNCHRONIZING"
STATE_READY == "STATE_READY"

\* Bounds of the model: the host sends at most MaxInput bytes (MaxFlood in
\* FloodSpec, MaxPoll in PollSpec), at most MaxBurst of them between two
\* calls of serialTask();
\* the log holds up to MaxLog pending bytes.
MaxInput == 5
MaxFlood == 11
MaxPoll == 3
MaxWait == 4
MaxBurst == 1
MaxLog == 14

\* The bytes of the host in SerialSpec: sync (an undefined command once the
\* session is READY), Get, Pulse, Set and a data byte that is a valid
\* register id and no command.
HostBytes == {STCMD_SYNC, 248, 240, 244, 3}

\* The bytes of the host in FloodSpec: sync and Get, which is a register id
\* above 15 when it follows a Get.
FloodBytes == {STCMD_SYNC, 248}

\* The bytes of the host in PollSpec and PublicSpec: sync, the byte the
\* table gives to stPoll, and a byte that is no command.
PollBytes == {STCMD_SYNC, 227, 3}

\* The bytes of the host in WaitSpec: sync, the bytes the table gives to
\* stPoll and stGet, and a register id.
WaitBytes == {STCMD_SYNC, 227, 248, 3}

\* #define ACK(CMD) ((byte)~CMD)
ACK(b) == 255 - b

EmptyRing == [head |-> 0, tail |-> 0, body |-> [k \in 0..(RING_BUF_SIZE - 1) |-> 0]]

NoPanic == <<>>

\* panic(kind, n): the first panic stops the firmware
panic(m, kind, n) ==
    IF m.panicked # NoPanic THEN m ELSE [m EXCEPT !.panicked = <<kind, n>>]

\* byte len(RING* const r)
len(r) ==
    IF r.head >= r.tail THEN r.head - r.tail
    ELSE (r.head + RING_BUF_SIZE) - r.tail

\* byte avail(RING* const r)
avail(r) == (RING_BUF_SIZE - len(r)) - 1

\* void consume(RING* const r, byte n), past its panics
consume(r, n) == [r EXCEPT !.tail = (r.tail + n) % RING_BUF_SIZE]

\* Mutant of peek: the newest byte.
peek_newest(r) == r.body[(r.head + RING_BUF_SIZE - 1) % RING_BUF_SIZE]

\* Mutant of isFull: full only when no slot at all is left.
isFull_late(r) == len(r) = RING_BUF_SIZE

\* byte peek(RING* const r)
peek(r) == r.body[r.tail]

\* byte copy(RING* const r, byte *bp, int bMax): the bytes placed at bp
copy(r, bMax) ==
    LET n == IF len(r) < bMax THEN len(r) ELSE bMax
    IN  [k \in 1..n |-> r.body[(r.tail + (k - 1)) % RING_BUF_SIZE]]

\* bool isFull(RING* const r)
isFull(r) == avail(r) = 0

\* void put(RING* const r, byte b), past its panic
put(r, b) ==
    [r EXCEPT !.body[r.head] = b, !.head = (r.head + 1) % RING_BUF_SIZE]

\* The bytes a ring holds, oldest first
Live(r) == copy(r, RING_BUF_SIZE)

\* Mutant of stateUnsync: the transmit ring is left as it is.
stateUnsync_keep(m) ==
    IF m.panicked # NoPanic THEN m
    ELSE [m EXCEPT !.rcvBuf.head = 0, !.rcvBuf.tail = 0,
                   !.inProgress = "none",
                   !.state = STATE_UNSYNC]

\* void stateUnsync()
stateUnsync(m) ==
    IF m.panicked # NoPanic THEN m
    ELSE [m EXCEPT !.rcvBuf.head = 0, !.rcvBuf.tail = 0,
                   !.xmtBuf.head = 0, !.xmtBuf.tail = 0,
                   !.inProgress = "none",
                   !.state = STATE_UNSYNC,
                   !.dropped = Live(m.xmtBuf)]

\* bool isCommand(byte b)
isCommand(b) == b > STCMD_BASE

\* void send(byte b), with put()'s panic on a full ring
send(m, b) ==
    IF m.panicked # NoPanic THEN m
    ELSE IF isFull(m.xmtBuf) THEN panic(m, "PANIC_SERIAL_NUMBERED", 7)
    ELSE [m EXCEPT !.xmtBuf = put(@, b), !.queued = Append(@, b)]

\* bool canSend(byte n)
canSend(m, n) == n < avail(m.xmtBuf)

\* void sendAck(byte b)
sendAck(m, b) ==
    IF ~isCommand(b) THEN panic(m, "PANIC_SERIAL_BAD_BYTE", b)
    ELSE send(m, ACK(b))

\* void sendNak(byte b)
sendNak(m, b) == send(m, STERR_BADCMD)

\* void allocPollBuffer()
allocPollBuffer(m) ==
    IF m.panicked # NoPanic THEN m
    ELSE IF m.pb.inuse THEN panic(m, "PANIC_SERIAL_NUMBERED", 13)
    ELSE [m EXCEPT !.pb = [inuse |-> TRUE, remaining |-> 0, next |-> 0]]

\* void freePollBuffer()
freePollBuffer(m) ==
    IF m.panicked # NoPanic THEN m
    ELSE IF ~m.pb.inuse THEN panic(m, "PANIC_SERIAL_NUMBERED", 14)
    ELSE [m EXCEPT !.pb = [inuse |-> FALSE, remaining |-> 0, next |-> 0]]

\* void internalSerialReset()
internalSerialReset(m) ==
    [stateUnsync(m) EXCEPT !.pb = [inuse |-> FALSE, remaining |-> 0, next |-> 0]]

\* Mutant of stBadCmd: the reset is taken on the first call already.
stBadCmd_at_once(m, b) ==
    [stateUnsync([m EXCEPT !.inProgress = "none"]) EXCEPT !.ret = STATE_UNSYNC]

\* State stBadCmd(RING* const r, byte b)
stBadCmd(m, b) ==
    LET m0 == [m EXCEPT !.inProgress = "none"]
    IN  IF m.panicked # NoPanic THEN m
        ELSE IF m0.state # STATE_DESYNCHRONIZING
        THEN IF ~canSend(m0, 1)
             THEN panic(m0, "PANIC_SERIAL_NUMBERED", 12)
             ELSE [sendNak(m0, b) EXCEPT !.ret = STATE_DESYNCHRONIZING]
        ELSE [stateUnsync(m0) EXCEPT !.ret = STATE_UNSYNC]

\* State stUndef(RING* const r, byte b)
stUndef(m, b) == stBadCmd(m, b)

\* State stSync(RING* const r, byte b)
stSync(m, b) ==
    LET m1 == [m EXCEPT !.rcvBuf = consume(@, 1)]
    IN  [sendAck(m1, b) EXCEPT !.ret = STATE_READY]

\* State stGetVer(RING* const r, byte b)
stGetVer(m, b) ==
    LET m1 == [m EXCEPT !.rcvBuf = consume(@, 1)]
        m2 == send(sendAck(m1, b), PROTOCOL_VERSION)
    IN  [m2 EXCEPT !.ret = m2.state]

\* The byte of the log that logGetPending() stores at pb->buf[k]
LogByte(k) == 65 + k

\* Mutant of PollLoop: pb->next is not advanced.
RECURSIVE PollLoop_stuck(_)
PollLoop_stuck(m) ==
    IF m.panicked = NoPanic /\ canSend(m, 1) /\ m.pb.remaining > 0
    THEN PollLoop_stuck([send(m, LogByte(m.pb.next)) EXCEPT
                            !.pb.remaining = @ - 1])
    ELSE m

\* State pollResponseInProgress()
RECURSIVE PollLoop(_)
PollLoop(m) ==
    IF m.panicked = NoPanic /\ canSend(m, 1) /\ m.pb.remaining > 0
    THEN PollLoop([send(m, LogByte(m.pb.next)) EXCEPT
                      !.pb.remaining = @ - 1, !.pb.next = @ + 1])
    ELSE m

pollResponseInProgress(m) ==
    LET m1 == PollLoop(m)
        m2 == IF m1.pb.remaining = 0
              THEN [freePollBuffer(m1) EXCEPT !.inProgress = "none"]
              ELSE m1
    IN  IF m2.panicked # NoPanic THEN m2
        ELSE [m2 EXCEPT !.ret = m2.state]

\* State stPoll(RING* const r, byte b), the log holding n pending bytes
stPoll(m, b, n) ==
    LET m1 == sendAck([m EXCEPT !.rcvBuf = consume(@, 1)], b)
    IN  IF n = 0
        THEN LET m2 == send(m1, 0) IN [m2 EXCEPT !.ret = m2.state]
        ELSE LET m2 == allocPollBuffer(m1)
                 m3 == send([m2 EXCEPT !.pb.remaining = n], n)
                 m4 == [m3 EXCEPT !.pb.next = 0,
                                  !.inProgress = "pollResponseInProgress"]
             IN  IF m3.panicked # NoPanic THEN m3
                 ELSE pollResponseInProgress(m4)

\* A register operation of port_utils.h
RegisterOp(m, name, reg) ==
    IF m.panicked # NoPanic THEN m
    ELSE [m EXCEPT !.ops = @ \cup {<<name, reg>>}]

\* State stPulse(RING* const r, byte b)
stPulse(m, b) ==
    LET pulseCmd == copy(m.rcvBuf, 3)
        m1 == [m EXCEPT !.rcvBuf = consume(@, 3), !.cmd = pulseCmd]
        m2 == IF pulseCmd[3] > MAX_REGISTER_ID THEN stBadCmd(m1, b) ELSE m1
        m3 == IF pulseCmd[2] > 0
              THEN RegisterOp(m2, "nanoTogglePulse", pulseCmd[3])
              ELSE m2
        m4 == sendAck(m3, b)
    IN  [m4 EXCEPT !.ret = m4.state]

\* State stSet(RING* const r, byte b)
stSet(m, b) ==
    LET setCmd == copy(m.rcvBuf, 3)
        m1 == [m EXCEPT !.rcvBuf = consume(@, 3), !.cmd = setCmd]
        m2 == IF setCmd[2] > MAX_REGISTER_ID THEN stBadCmd(m1, b) ELSE m1
        m3 == RegisterOp(m2, "nanoSetRegister", setCmd[2])
        m4 == sendAck(m3, b)
    IN  [m4 EXCEPT !.ret = m4.state]

\* State stGet(RING* const r, byte b), the register reading `result`
stGet(m, b, result) ==
    LET getCmd == copy(m.rcvBuf, 2)
        m1 == [m EXCEPT !.rcvBuf = consume(@, 2), !.cmd = getCmd]
        m2 == IF getCmd[2] > MAX_REGISTER_ID THEN stBadCmd(m1, b) ELSE m1
        m3 == RegisterOp(m2, "nanoGetRegister", getCmd[2])
        m4 == send(sendAck(m3, b), result)
    IN  [m4 EXCEPT !.ret = m4.state]

\* const PROGMEM CommandData handlers[]
handlers ==
    [k \in 0..31 |->
        IF k \in {0, 31} THEN [handler |-> "stBadCmd", length |-> 1]
        ELSE IF k = 1 THEN [handler |-> "stSync", length |-> 1]
        ELSE IF k = 2 THEN [handler |-> "stGetVer", length |-> 1]
        ELSE IF k = 3 THEN [handler |-> "stPoll", length |-> 1]
        ELSE IF k = 16 THEN [handler |-> "stPulse", length |-> 3]
        ELSE IF k \in {20, 21} THEN [handler |-> "stSet", length |-> 3]
        ELSE IF k \in {24, 25} THEN [handler |-> "stGet", length |-> 2]
        ELSE [handler |-> "stUndef", length |-> 1]]

\* (*handler)(r, b)
CallHandler(name, m, b, n, result) ==
    LET m1 == [m EXCEPT !.handler = name]
    IN  CASE name = "stBadCmd" -> stBadCmd(m1, b)
          [] name = "stUndef" -> stUndef(m1, b)
          [] name = "stSync" -> stSync(m1, b)
          [] name = "stGetVer" -> stGetVer(m1, b)
          [] name = "stPoll" -> stPoll(m1, b, n)
          [] name = "stPulse" -> stPulse(m1, b)
          [] name = "stSet" -> stSet(m1, b)
          [] name = "stGet" -> stGet(m1, b, result)

\* Mutant of process: the room in the transmit ring is not checked.
process_eager(m, b, n, result) ==
    IF ~isCommand(b) THEN stBadCmd([m EXCEPT !.handler = "stBadCmd"], b)
    ELSE IF len(m.rcvBuf) < handlers[b - STCMD_BASE].length
    THEN [m EXCEPT !.ret = m.state]
    ELSE CallHandler(handlers[b - STCMD_BASE].handler, m, b, n, result)

\* State process(RING *const r, byte b)
process(m, b, n, result) ==
    IF ~isCommand(b) THEN stBadCmd([m EXCEPT !.handler = "stBadCmd"], b)
    ELSE LET cmdLen == handlers[b - STCMD_BASE].length
         IN  IF len(m.rcvBuf) < cmdLen
                  \/ avail(m.xmtBuf) < MAX_FIXED_RESPONSE_BYTES
             THEN [m EXCEPT !.ret = m.state]
             ELSE CallHandler(handlers[b - STCMD_BASE].handler, m, b, n, result)

\* while (!isFull(rcvBuf) && Serial.available()) put(rcvBuf, Serial.read())
RECURSIVE ReadLoop(_, _)
ReadLoop(r, input) ==
    IF input = <<>> \/ isFull(r) THEN r
    ELSE ReadLoop(put(r, Head(input)), Tail(input))

\* int serialTask(): the port takes `writable` bytes, the host has sent
\* `input`, the log holds n pending bytes and a register reads `result`
serialTaskOf(m, writable, input, n, result) ==
    LET m0 == [m EXCEPT !.xmtBuf = consume(@, writable),
                        !.rcvBuf = ReadLoop(@, input)]
        b == peek(m0.rcvBuf)
        m1 == [m0 EXCEPT !.seen = IF len(m0.rcvBuf) > 0 THEN b ELSE -1,
                         !.space = avail(m0.xmtBuf),
                         !.held = len(m0.rcvBuf)]
        m2 == IF m1.inProgress # "none" THEN pollResponseInProgress(m1)
              ELSE IF len(m1.rcvBuf) > 0
              THEN IF m1.state = STATE_READY THEN process(m1, b, n, result)
                   ELSE IF m1.state = STATE_UNSYNC /\ b = STCMD_SYNC
                   THEN stSync([m1 EXCEPT !.handler = "stSync"], b)
                   ELSE stBadCmd([m1 EXCEPT !.handler = "stBadCmd"], b)
              ELSE [m1 EXCEPT !.ret = m1.state]
    IN  IF m2.panicked # NoPanic THEN m2 ELSE [m2 EXCEPT !.state = m2.ret]

\* The task's variables as a record, the notes of the last call cleared
Machine ==
    [state |-> state, rcvBuf |-> rcvBuf, xmtBuf |-> xmtBuf,
     inProgress |-> inProgress, pb |-> pb, panicked |-> panicked,
     queued |-> <<>>, ops |-> {}, handler |-> "none", cmd |-> <<>>,
     dropped |-> <<>>, seen |-> -1, space |-> 0,
     held |-> 0, ret |-> state]

Bursts(k) ==
    UNION {[1..j -> host] : j \in 0..k}

Become(m) ==
    /\ state' = m.state
    /\ rcvBuf' = m.rcvBuf
    /\ xmtBuf' = m.xmtBuf
    /\ inProgress' = m.inProgress
    /\ pb' = m.pb
    /\ panicked' = m.panicked
    /\ queued' = m.queued
    /\ ops' = m.ops
    /\ handler' = m.handler
    /\ cmd' = m.cmd
    /\ dropped' = m.dropped
    /\ seen' = m.seen
    /\ space' = m.space
    /\ held' = m.held
    /\ reply' = IF m.handler = "stPoll" THEN m.queued
                ELSE IF inProgress # "none" THEN reply \o m.queued
                ELSE <<>>

\* The adder at rest
AdderIdle ==
    /\ at = "off" /\ RST = 0 /\ pins = <<>> /\ outs = <<>> /\ edges = 0

\* The lone ring at rest
RingIdle ==
    ring = EmptyRing /\ fifo = <<>> /\ stamp = 0 /\ resets = 0
    /\ ring_panic = 0

SerialInit(bytes, count) ==
    /\ state = STATE_UNSYNC
    /\ rcvBuf = EmptyRing
    /\ xmtBuf = EmptyRing
    /\ inProgress = "none"
    /\ pb = [inuse |-> FALSE, remaining |-> 0, next |-> 0]
    /\ panicked = NoPanic
    /\ host = bytes
    /\ budget = count
    /\ queued = <<>>
    /\ ops = {}
    /\ handler = "none"
    /\ cmd = <<>>
    /\ dropped = <<>>
    /\ seen = -1
    /\ space = 0
    /\ held = 0
    /\ reply = <<>>
    /\ RingIdle /\ AdderIdle

\* int serialTaskBody(): one call of serialTask()
SerialTask ==
    /\ panicked = NoPanic
    /\ \E writable \in 0..len(xmtBuf), n \in {0, MaxLog}, result \in {90} :
       \E input \in Bursts(IF budget < MaxBurst THEN budget ELSE MaxBurst) :
          /\ Len(input) <= avail(rcvBuf)
          /\ budget' = budget - Len(input)
          /\ \E m \in {serialTaskOf(Machine, writable, input, n, result)} :
                Become(m)
    /\ UNCHANGED <<host, exited, ringVars, adderVars>>

\* void serialShutdown()
SerialShutdown ==
    /\ panicked = NoPanic
    /\ \E m \in {stateUnsync(Machine)} : Become([m EXCEPT !.dropped = <<>>])
    /\ UNCHANGED <<host, budget, exited, ringVars, adderVars>>

\* void SerialReset()
SerialReset ==
    /\ panicked = NoPanic
    /\ \E m \in {internalSerialReset(Machine)} :
          Become([m EXCEPT !.dropped = <<>>])
    /\ UNCHANGED <<host, budget, exited, ringVars, adderVars>>

(***************************************************************************)
(* The LS283 adder of SCsim: LS283.h, LS283.cpp.  add() is a clocked thread *)
(* (SC_CTHREAD on clock.pos(), reset_signal_is(RST, true)): it runs at each *)
(* rising clock edge, from where it waits, up to its next wait(); an edge   *)
(* with RST active restarts it from the top.  Signals hold 0 or 1.          *)
(***************************************************************************)
MaxEdges == 3

InPins == {"A1", "A2", "A3", "A4", "B1", "B2", "B3", "B4", "Cin"}
OutPins == {"Sum1", "Sum2", "Sum3", "Sum4", "Cout"}

Bit(v, k) == (v \div (2 ^ k)) % 2

\* sc_uint<4> a_int = (A4 << 3) | (A3 << 2) | (A2 << 1) | A1
a_int(p) == (p["A4"] * 8 + p["A3"] * 4 + p["A2"] * 2 + p["A1"]) % 16

\* sc_uint<4> b_int = (B4 << 3) | (B3 << 2) | (B2 << 1) | B1
b_int(p) == (p["B4"] * 8 + p["B3"] * 4 + p["B2"] * 2 + p["B1"]) % 16

\* sc_uint<5> sum_int = a_int + b_int + cin_int
sum_int(p) == (a_int(p) + b_int(p) + (p["Cin"] % 2)) % 32

\* Sum1.write(sum_int[0]) ... Cout.write(sum_int[4])
Written(p) ==
    [o \in OutPins |->
        IF o = "Sum1" THEN Bit(sum_int(p), 0)
        ELSE IF o = "Sum2" THEN Bit(sum_int(p), 1)
        ELSE IF o = "Sum3" THEN Bit(sum_int(p), 2)
        ELSE IF o = "Sum4" THEN Bit(sum_int(p), 3)
        ELSE Bit(sum_int(p), 4)]

\* The top of the loop of add(): the wait() it reaches with RST = r
LoopTop(r) == IF r = 1 THEN "wait_reset" ELSE "wait_add"

\* void LS283::add(), from where it waits to its next wait(): the place it
\* waits at next and the outputs it leaves
add(where, r, p, o) ==
    IF r = 1 THEN [at |-> LoopTop(r), outs |-> o]
    ELSE IF where = "wait_add" THEN [at |-> LoopTop(r), outs |-> Written(p)]
    ELSE [at |-> LoopTop(r), outs |-> o]

\* Elaboration: the thread has not run, every sc_signal<bool> is false
AdderInit ==
    /\ at = "start" /\ RST = 0
    /\ pins = [q \in InPins |-> 0]
    /\ outs = [o \in OutPins |-> 0]
    /\ edges = 0

\* A rising clock edge; the test bench has set RST and the inputs
ClockEdge ==
    /\ edges < MaxEdges
    /\ edges' = edges + 1
    /\ \E r \in {0, 1}, p \in [InPins -> {0, 1}] :
          /\ RST' = r
          /\ pins' = p
          /\ \E n \in {add(at, r, p, outs)} :
                at' = n.at /\ outs' = n.outs

(***************************************************************************)
(* One ring of serial_task.h on its own: put, consume, stateUnsync and the  *)
(* receive loop of serialTask() in any order.  The bytes that arrive are     *)
(* numbered 1, 2, ... so that their order can be told.                       *)
(***************************************************************************)
MaxStamp == 20
MaxResets == 1
MaxConsume == 3

\* The next k bytes to arrive
Arriving(k) == [j \in 1..k |-> stamp + j - 1]

RingInit ==
    ring = EmptyRing /\ fifo = <<>> /\ stamp = 1 /\ resets = 0
    /\ ring_panic = 0

\* put(r, b)
RingPut ==
    /\ ring_panic = 0
    /\ stamp <= MaxStamp
    /\ IF isFull(ring)
       THEN ring_panic' = 7 /\ UNCHANGED <<ring, fifo, stamp>>
       ELSE /\ ring' = put(ring, stamp)
            /\ fifo' = Append(fifo, stamp)
            /\ stamp' = stamp + 1
            /\ UNCHANGED ring_panic
    /\ UNCHANGED resets

\* consume(r, n)
RingConsume ==
    /\ ring_panic = 0
    /\ \E n \in 1..MaxConsume :
          IF n > len(ring)
          THEN ring_panic' = 4 /\ UNCHANGED <<ring, fifo>>
          ELSE /\ ring' = consume(ring, n)
               /\ fifo' = SubSeq(fifo, n + 1, Len(fifo))
               /\ UNCHANGED ring_panic
    /\ UNCHANGED <<stamp, resets>>

\* stateUnsync(), as it acts on one ring
RingUnsync ==
    /\ ring_panic = 0
    /\ resets < MaxResets
    /\ resets' = resets + 1
    /\ ring' = [ring EXCEPT !.head = 0, !.tail = 0]
    /\ fifo' = <<>>
    /\ UNCHANGED <<stamp, ring_panic>>

\* The receive loop of serialTask() with k bytes waiting in the port
RingReceive ==
    /\ ring_panic = 0
    /\ \E k \in 1..(MaxBurst + 1) :
          LET taken == IF k < avail(ring) THEN k ELSE avail(ring)
          IN  /\ stamp + k - 1 <= MaxStamp
              /\ ring' = ReadLoop(ring, Arriving(k))
              /\ fifo' = fifo \o SubSeq(Arriving(k), 1, taken)
              /\ stamp' = stamp + taken
    /\ UNCHANGED <<resets, ring_panic>>

\* The task's own variables at rest, for the specifications of other parts
TaskIdle ==
    /\ state = "idle" /\ rcvBuf = EmptyRing /\ xmtBuf = EmptyRing
    /\ inProgress = "none" /\ pb = <<>> /\ panicked = NoPanic /\ host = {}
    /\ budget = 0 /\ queued = <<>> /\ ops = {} /\ handler = "none"
    /\ cmd = <<>> /\ dropped = <<>> /\ seen = -1 /\ space = 0
    /\ held = 0 /\ reply = <<>>

SerialIdle == TaskIdle /\ RingIdle /\ AdderIdle

LogicIdle == a0 = 0 /\ a1 = 0 /\ fn = "none" /\ res = 0
HookIdle ==
    TspNets = <<>> /\ B1_state = <<>> /\ hook = "none" /\ nets0 = <<>>
PackIdle ==
    /\ pk_vec = <<>> /\ pk_old = <<>> /\ pk_s = 0 /\ pk_n = 0
    /\ pk_v = <<>> /\ pk_op = "none" /\ pk_ret = <<>>

Init == SchedInit /\ LogicIdle /\ HookIdle /\ PackIdle /\ PartIdle /\ TraceIdle /\ SerialIdle
    /\ exited = FALSE

Next ==
    \/ SimulateStart /\ UNCHANGED <<logicVars, hookVars, packVars, partVars, traceVars, serialVars,
                     exitVars>>
    \/ LoopEnter /\ UNCHANGED <<logicVars, hookVars, packVars, partVars, traceVars, serialVars,
                     exitVars>>
    \/ LoopExit /\ UNCHANGED <<logicVars, hookVars, packVars, partVars, traceVars, serialVars,
                     exitVars>>
    \/ HookReturns /\ UNCHANGED <<logicVars, hookVars, packVars, partVars, traceVars, serialVars,
                     exitVars>>
    \/ HookHalts /\ UNCHANGED <<logicVars, hookVars, packVars, partVars, traceVars, serialVars,
                     exitVars>>
    \/ PhaseEnd /\ UNCHANGED <<logicVars, hookVars, packVars, partVars, traceVars, serialVars,
                     exitVars>>
    \/ Increment /\ UNCHANGED <<logicVars, hookVars, packVars, partVars, traceVars, serialVars,
                     exitVars>>

Spec == Init /\ [][Next]_vars

\* The scheduler with tables that are empty, partly filled or full
FullInit ==
    /\ cycle = 0
    /\ clock = 0
    /\ pc = "init"
    /\ i = 0
    /\ \E n \in [PhaseSet -> {0, MaxHooks, MAX_RESOLVERS}] :
          resolvers = [p \in PhaseSet |-> Table(n[p])]
    /\ trace_calls = 0
    /\ calls = <<>>
    /\ executed = <<>>
    /\ completed = 0
    /\ halt_requested = FALSE
    /\ por_low_seen = FALSE
    /\ LogicIdle /\ HookIdle /\ PackIdle /\ PartIdle /\ TraceIdle
    /\ SerialIdle /\ exited = FALSE

FullNext ==
    \/ Next
    \/ PastTableEnd /\ UNCHANGED <<logicVars, hookVars, packVars, partVars,
                                   traceVars, serialVars, exitVars>>
    \/ PastTableCall /\ UNCHANGED <<logicVars, hookVars, packVars, partVars,
                                    traceVars, serialVars, exitVars>>

FullSpec == FullInit /\ [][FullNext]_vars

\* The program is one thread that runs until simulate() returns.
FairSpec == Spec /\ WF_vars(Next)

LogicSpecInit == SchedIdle /\ LogicInit /\ HookIdle /\ PackIdle /\ PartIdle /\ TraceIdle /\ SerialIdle
    /\ exited = FALSE

LogicNext ==
    \/ Apply_and4s /\ UNCHANGED <<schedVars, hookVars, packVars, partVars, traceVars, serialVars,
                     exitVars>>
    \/ Apply_or4s /\ UNCHANGED <<schedVars, hookVars, packVars, partVars, traceVars, serialVars,
                     exitVars>>
    \/ Apply_xor4s /\ UNCHANGED <<schedVars, hookVars, packVars, partVars, traceVars, serialVars,
                     exitVars>>
    \/ Apply_not4s /\ UNCHANGED <<schedVars, hookVars, packVars, partVars, traceVars, serialVars,
                     exitVars>>
    \/ Apply_NOT /\ UNCHANGED <<schedVars, hookVars, packVars, partVars, traceVars, serialVars,
                     exitVars>>
    \/ Apply_NOT_sib /\ UNCHANGED <<schedVars, hookVars, packVars, partVars, traceVars, serialVars,
                     exitVars>>

LogicSpec == LogicSpecInit /\ [][LogicNext]_vars

\* The hooks run in some cycle of the run, with POR asserted or not.
HookSpecInit ==
    /\ SchedRest
    /\ cycle \in 1..MaxHookCycle
    /\ LogicIdle
    /\ HookInit
    /\ PackIdle
    /\ PartIdle
    /\ TraceIdle /\ SerialIdle
    /\ exited = FALSE

HookNext ==
    \/ Call_U1_rising_edge /\ UNCHANGED <<schedVars, logicVars, packVars, partVars, traceVars, serialVars,
                     exitVars>>
    \/ Call_N8 /\ UNCHANGED <<schedVars, logicVars, packVars, partVars, traceVars, serialVars,
                     exitVars>>
    \/ Call_N9 /\ UNCHANGED <<schedVars, logicVars, packVars, partVars, traceVars, serialVars,
                     exitVars>>
    \/ Call_N10 /\ UNCHANGED <<schedVars, logicVars, packVars, partVars, traceVars, serialVars,
                     exitVars>>
    \/ Call_N11 /\ UNCHANGED <<schedVars, logicVars, packVars, partVars, traceVars, serialVars,
                     exitVars>>
    \/ Call_N8_N9 /\ UNCHANGED <<schedVars, logicVars, packVars, partVars, traceVars, serialVars,
                     exitVars>>
    \/ Call_N9_N8 /\ UNCHANGED <<schedVars, logicVars, packVars, partVars, traceVars, serialVars,
                     exitVars>>

HookSpec == HookSpecInit /\ [][HookNext]_vars

PackSpecInit ==
    SchedIdle /\ LogicIdle /\ HookIdle /\ PackInit /\ PartIdle /\ TraceIdle /\ SerialIdle
    /\ exited = FALSE

PackNext ==
    \/ Call_SETN /\ UNCHANGED <<schedVars, logicVars, hookVars, partVars, traceVars, serialVars>>
    \/ Call_SET1 /\ UNCHANGED <<schedVars, logicVars, hookVars, partVars, traceVars, serialVars>>
    \/ Call_GETN /\ UNCHANGED <<schedVars, logicVars, hookVars, partVars, traceVars, serialVars>>

PackSpec == PackSpecInit /\ [][PackNext]_vars

PartSpecInit ==
    SchedIdle /\ LogicIdle /\ HookIdle /\ PackIdle /\ PartInit /\ TraceIdle /\ SerialIdle
    /\ exited = FALSE

PartNext ==
    \/ ~NextIsSeq /\ MakeComb
          /\ UNCHANGED <<schedVars, logicVars, hookVars, packVars, traceVars, serialVars>>
    \/ NextIsSeq /\ MakeSeq
          /\ UNCHANGED <<schedVars, logicVars, hookVars, packVars, traceVars, serialVars>>
    \/ DrawnBind /\ UNCHANGED <<schedVars, logicVars, hookVars, packVars, traceVars, serialVars>>

PartSpec == PartSpecInit /\ [][PartNext]_vars

TraceSpecInit ==
    SchedIdle /\ LogicIdle /\ HookIdle /\ PackIdle /\ PartIdle /\ TraceInit
    /\ SerialIdle /\ exited = FALSE

TraceNext ==
    \/ InitializeTracing
          /\ UNCHANGED <<schedVars, logicVars, hookVars, packVars, partVars,
                       serialVars>>
    \/ WriteTrace
          /\ UNCHANGED <<schedVars, logicVars, hookVars, packVars, partVars,
                       serialVars>>
    \/ CloseTrace
          /\ UNCHANGED <<schedVars, logicVars, hookVars, packVars, partVars,
                       serialVars>>

TraceSpec == TraceSpecInit /\ [][TraceNext]_vars

SerialSpecInit ==
    SchedIdle /\ LogicIdle /\ HookIdle /\ PackIdle /\ PartIdle /\ TraceIdle
    /\ SerialInit(HostBytes, MaxInput) /\ exited = FALSE

SerialNext ==
    SerialTask
       /\ UNCHANGED <<schedVars, logicVars, hookVars, packVars, partVars,
                      traceVars>>

SerialSpec == SerialSpecInit /\ [][SerialNext]_vars

FloodSpecInit ==
    SchedIdle /\ LogicIdle /\ HookIdle /\ PackIdle /\ PartIdle /\ TraceIdle
    /\ SerialInit(FloodBytes, MaxFlood) /\ exited = FALSE

FloodSpec == FloodSpecInit /\ [][SerialNext]_vars

PollSpecInit ==
    SchedIdle /\ LogicIdle /\ HookIdle /\ PackIdle /\ PartIdle /\ TraceIdle
    /\ SerialInit(PollBytes, MaxInput) /\ exited = FALSE

PollInit ==
    SchedIdle /\ LogicIdle /\ HookIdle /\ PackIdle /\ PartIdle /\ TraceIdle
    /\ SerialInit(PollBytes, MaxPoll) /\ exited = FALSE

PollSpec == PollInit /\ [][SerialNext]_vars

WaitInit ==
    SchedIdle /\ LogicIdle /\ HookIdle /\ PackIdle /\ PartIdle /\ TraceIdle
    /\ SerialInit(WaitBytes, MaxWait) /\ exited = FALSE

WaitSpec == WaitInit /\ [][SerialNext]_vars

\* A call of serialTask() in which Serial.availableForWrite() is not 0 and
\* the port takes at least one byte of the transmit ring
PortTakes == SerialNext /\ space' > avail(xmtBuf)

PublicNext ==
    \/ SerialNext
    \/ SerialShutdown
          /\ UNCHANGED <<schedVars, logicVars, hookVars, packVars, partVars,
                         traceVars>>
    \/ SerialReset
          /\ UNCHANGED <<schedVars, logicVars, hookVars, packVars, partVars,
                         traceVars>>

PublicSpec == PollSpecInit /\ [][PublicNext]_vars

RingSpecInit ==
    SchedIdle /\ LogicIdle /\ HookIdle /\ PackIdle /\ PartIdle /\ TraceIdle
    /\ TaskIdle /\ RingInit /\ AdderIdle /\ exited = FALSE

\* Everything but the lone ring
RingRest ==
    <<state, rcvBuf, xmtBuf, inProgress, pb, panicked, host, budget, queued,
      ops, handler, cmd, dropped, seen, space, held, reply, schedVars,
      logicVars, hookVars, packVars, partVars, traceVars, exited,
      adderVars>>

RingNext ==
    \/ RingPut /\ UNCHANGED RingRest
    \/ RingConsume /\ UNCHANGED RingRest
    \/ RingUnsync /\ UNCHANGED RingRest
    \/ RingReceive /\ UNCHANGED RingRest

RingSpec == RingSpecInit /\ [][RingNext]_vars

AdderSpecInit ==
    SchedIdle /\ LogicIdle /\ HookIdle /\ PackIdle /\ PartIdle /\ TraceIdle
    /\ TaskIdle /\ RingIdle /\ AdderInit /\ exited = FALSE

AdderNext ==
    ClockEdge
       /\ UNCHANGED <<schedVars, logicVars, hookVars, packVars, partVars,
                      traceVars, exited, ringVars, state, rcvBuf, xmtBuf,
                      inProgress, pb, panicked, host, budget, queued, ops,
                      handler, cmd, dropped, seen, space, held, reply>>

AdderSpec == AdderSpecInit /\ [][AdderNext]_vars

(***************************************************************************)
(* Properties                                                              *)
(***************************************************************************)

\* C1: in every cycle the hooks are invoked phase by phase in the order
\* rising_edge, clock_is_high, falling_edge, clock_is_low, within a phase in
\* table order, each exactly once: the calls made so far in a cycle are a
\* prefix of that order, and all of it when the fourth phase has returned.
C1_PhaseOrder ==
    /\ IsPrefix(calls, FullCycle)
    /\ (pc = "incr" => calls = FullCycle)

C1_Witness ==
    /\ pc = "incr"
    /\ calls = FullCycle
    /\ \A p \in PhaseSet : TableLen(resolvers[p]) = 2

\* C2: with max_cycles = 10 and no hook requesting halt the scheduler
\* terminates, having executed the cycles 1, 2, ..., 10 once each, and the
\* cycle counter then is 11.
C2_TenCycles ==
    /\ <>(halt_requested \/ pc = "done")
    /\ []((pc = "done" /\ ~halt_requested) =>
            /\ cycle = 11
            /\ completed = 10
            /\ executed = <<1, 2, 3, 4, 5, 6, 7, 8, 9, 10>>)

C2_Witness ==
    /\ pc = "done"
    /\ ~halt_requested
    /\ completed = 10
    /\ cycle = 11

\* C3: with tracing enabled write_trace is invoked exactly once per
\* completed cycle, after the clock_is_low hooks and before the counter is
\* incremented, so N times over N cycles.
C3_TraceOncePerCycle ==
    ENABLE_TRACING = 1 =>
        /\ (pc \in {"test", "done"} => trace_calls = completed)
        /\ (pc = "incr" => trace_calls = completed + 1)

\* C4: GetPOR() reads 1 in every phase of the cycles 1..por_cycles and 0 in
\* every phase of every later cycle, and once it has read 0 it never reads
\* 1 again, whatever the hooks do (halt() included).
C4_PorWindow ==
    /\ (pc \in PhaseSet =>
            GetPOR = IF completed + 1 <= por_cycles THEN 1 ELSE 0)
    /\ (por_low_seen => GetPOR = 0)

\* C5: while POR is asserted U1_rising_edge drives onto bus B1 one fixed
\* reset value, whatever the input nets hold, and each of its B1_SIZE sibs
\* is defined (0 or 1).
C5_ResetDefined ==
    (hook = "U1_rising_edge" /\ GetPOR = 1) =>
        /\ Val(getbus(TspNets, B1, B1_SIZE)) = U1_POR_VALUE
        /\ \A k \in 0..(B1_SIZE - 1) : SibAt(TspNets, B1 + k) \in {0, 1}

\* C6: and4s(a, b) is 0 if either operand is 0, 1 if both are 1, and X in
\* every other case; in particular and4s(1, X) = and4s(X, 1) = X.
C6_AndTable ==
    fn = "and4s" =>
        res = IF SIB(a0) = 0 \/ SIB(a1) = 0 THEN 0
              ELSE IF SIB(a0) = 1 /\ SIB(a1) = 1 THEN 1
              ELSE X

C6_Witness == fn = "and4s" /\ a0 = 1 /\ a1 = X /\ res = X

\* C7: or4s(a, b) is 1 if either operand is 1 whatever the other is (Z and
\* X included), 0 if both are 0, and X in every other case.
C7_OrTable ==
    fn = "or4s" =>
        res = IF SIB(a0) = 1 \/ SIB(a1) = 1 THEN 1
              ELSE IF SIB(a0) = 0 /\ SIB(a1) = 0 THEN 0
              ELSE X

\* C8: xor4s(a, b) is the Boolean exclusive-or when both operands are 0 or
\* 1, and X whenever an operand is Z or X.
C8_XorTable ==
    fn = "xor4s" =>
        res = IF SIB(a0) \in {0, 1} /\ SIB(a1) \in {0, 1}
              THEN (SIB(a0) + SIB(a1)) % 2
              ELSE X

C8_Witness == fn = "xor4s" /\ a0 = 1 /\ a1 = HIGHZ /\ res = X

\* C9: NOT(0) = 1, NOT(1) = 0, NOT(Z) = X, NOT(X) = X, for the table-driven
\* not4s and for the arithmetic NOT of api.c and sib.c alike, which agree on
\* every sib.
C9_NotAgree ==
    /\ (fn \in {"not4s", "NOT", "NOT_sib"} =>
            res = IF SIB(a0) = 0 THEN 1 ELSE IF SIB(a0) = 1 THEN 0 ELSE X)
    /\ not4s(SIB(a0)) = NOT(SIB(a0))
    /\ NOT(SIB(a0)) = NOT_sib(SIB(a0))

C9_Witness == fn = "NOT" /\ a0 = HIGHZ /\ res = X

InCapacity == pk_s + pk_n <= Capacity(pk_vec)

\* The value has no bit set above the low 2 * pk_n bits.
Fits == pk_v = AndW(pk_v, MASK(pk_n))

\* C11: SETN(vec, s, n, v) followed by GETN(vec, s, n) returns v, for every
\* field inside the vector, whatever its alignment to the word boundaries,
\* every value that fits in n sibs and any prior contents.
C11_RoundTrip ==
    (pk_op = "SETN" /\ InCapacity /\ Fits) => pk_ret = pk_v

\* The width written by the macro applied last.
WidthWritten == IF pk_op = "SET1" THEN 1 ELSE pk_n

\* C12: SETN and SET1 leave every sib outside [s, s+n) as it was, in every
\* word of the vector, also when v has bits set above its low 2n bits.
C12_Frame ==
    pk_op \in {"SETN", "SET1"} =>
        \A w \in DOMAIN pk_vec, b \in BitPos :
            LET t == w * SIBS_PER_WORD + (b \div BITS_PER_SIB)
            IN  (t < pk_s \/ t >= pk_s + WidthWritten) =>
                    pk_vec[w][b] = pk_old[w][b]

C12_Witness ==
    /\ pk_op = "SETN" /\ ~Fits
    /\ pk_s = 3 /\ pk_n = 2
    /\ pk_vec # pk_old
    /\ Cardinality(DOMAIN pk_vec) = 2

\* C13: a get or set whose range reaches outside the declared capacity ends
\* in the fatal-error state and neither reads nor writes storage.
C13_OutOfRangeFatal ==
    (pk_op # "none" /\ ~InCapacity) => (exited /\ pk_vec = pk_old)

\* C14: bind(from, to, offset, n_bits) ends in the fatal-error state whenever
\* the destination part `to` already holds N_BIND input bindings.
C14_FullDestinationFatal ==
    [][ (last'.op = "bind" /\ parts[last'.to].next_bind >= N_BIND)
            => exited' ]_vars

\* C15: a successful bind appends the new binding's index to the input list
\* of the destination part, whose next_bind grows by one; the binding
\* records from, offset and n_bits; the input list and next_bind of every
\* other part, the source part included, are unchanged.
C15_AppendsToDestination ==
    [][ (last'.op = "bind" /\ ~exited' /\ ~wild') =>
            LET to == last'.to
                b == last'.ret
            IN  /\ parts'[to].next_bind = parts[to].next_bind + 1
                /\ parts'[to].inputs[parts[to].next_bind] = b
                /\ binds'[b] = [from |-> last'.from, offset |-> last'.offset,
                                n_bits |-> last'.n_bits]
                /\ \A p \in Made \ {to} : parts'[p] = parts[p] ]_vars

\* C16: the binding allocator never hands out an index >= MAX_BIND and no
\* bind call writes binds[] out of range.
C16_BindPoolBounded ==
    /\ ~wild
    /\ last.op = "bind" => last.ret < MAX_BIND

\* The state slots in use as some part's output or future.
SlotsInUse(ps) ==
    {ps[p].output : p \in DOMAIN ps} \cup {ps[p].future : p \in DOMAIN ps}

\* C17: a successful make_comb returns an index in 1..MAX_PART-1 that no
\* earlier call returned, with future 0 and a freshly allocated output
\* state whose undefs is all ones; with no slot free the call ends in the
\* fatal-error state and modifies no part and no state.
C17_MakeComb ==
    [][ last'.op = "make_comb" =>
          IF next_part < MAX_PART
          THEN LET p == last'.ret
                   s == parts'[p].output
               IN  /\ ~exited'
                   /\ p \in 1..(MAX_PART - 1)
                   /\ p \notin DOMAIN returned
                   /\ parts'[p].future = 0
                   /\ s # 0
                   /\ s \notin SlotsInUse(parts)
                   /\ s \notin DOMAIN states
                   /\ states'[s].undefs = ALL_BITS
                   /\ states'[s].part = p
                   /\ \A q \in DOMAIN parts : parts'[q] = parts[q]
                   /\ \A r \in DOMAIN states : states'[r] = states[r]
          ELSE /\ exited'
               /\ UNCHANGED <<parts, next_part, states, next_state,
                              binds, next_bind>> ]_vars

C17_Witness ==
    /\ last.op = "make_comb" /\ exited
    /\ DOMAIN returned = 1..(MAX_PART - 1)

\* C18: every sequential part p has two nonzero state slots output # future,
\* both with states[...].part = p; every combinational part has future = 0;
\* no state slot is the output or future of two different parts.
C18_PartStates ==
    /\ DOMAIN returned = Made
    /\ \A p \in Made :
          LET o == parts[p].output
              f == parts[p].future
          IN  /\ o # 0 /\ o < next_state /\ states[o].part = p
              /\ returned[p] = "make_seq" =>
                    f # 0 /\ f # o /\ f < next_state /\ states[f].part = p
              /\ returned[p] = "make_comb" => f = 0
    /\ Cardinality(SlotsInUse(parts) \ {0}) =
          Cardinality(Made)
            + Cardinality({p \in Made : returned[p] = "make_seq"})

C18_Witness ==
    /\ \E p \in Made : returned[p] = "make_seq"
    /\ \E p \in Made : returned[p] = "make_comb"
    /\ next_part = MAX_PART

\* The part `to` has binding b in its input list.
Feeds(ps, to, b) ==
    \E k \in 0..(ps[to].next_bind - 1) : ps[to].inputs[k] = b

\* Two successive binds of one source state and range to two destinations.
FanOut ==
    /\ last.op = "bind" /\ last'.op = "bind"
    /\ last'.from = last.from /\ last'.to # last.to
    /\ last'.offset = last.offset /\ last'.n_bits = last.n_bits
    /\ last.ret # 0 /\ ~exited' /\ ~wild'

\* The pool entries of a fan-out: distinct, the same source and range, the
\* first binding and the source state untouched by the second bind.
FanOutEntries ==
    LET b1 == last.ret
        b2 == last'.ret
    IN  /\ b1 # b2
        /\ binds'[b1].from = last.from /\ binds'[b2].from = last.from
        /\ binds'[b1].offset = binds'[b2].offset
        /\ binds'[b1].n_bits = binds'[b2].n_bits
        /\ binds'[b1] = binds[b1]
        /\ states' = states

\* C19: a source state bound to two different destinations with the same
\* offset and n_bits gives two distinct pool entries referencing that state
\* and range, each feeding its destination, so that both destinations read
\* the same sibs; the second bind changes neither the first binding nor the
\* source state.
C19_FanOut ==
    [][ FanOut =>
            /\ FanOutEntries
            /\ Feeds(parts', last.to, last.ret)
            /\ Feeds(parts', last'.to, last'.ret) ]_vars

C21_CounterCountsCycles ==
    pc # "init" => cycle = 1 + completed

\* C22: TspGetClk() returns 1 throughout every clock_is_high phase and 0
\* throughout every clock_is_low phase, in every cycle.
C22_ClockLevel ==
    /\ pc = "clock_is_high" => TspGetClk = 1
    /\ pc = "clock_is_low" => TspGetClk = 0

C22_Witness ==
    /\ pc = "clock_is_low" /\ i = 1 /\ TspGetClk = 0
    /\ completed = 2
    /\ \E k \in 1..Len(calls) : calls[k][1] = "clock_is_high"

\* The sibs of the net vector that differ between two contents.
Changed(before, after) ==
    {s \in 0..(NETS_ELEMENT_COUNT * SIBS_PER_WORD - 1) :
        SibAt(before, s) # SibAt(after, s)}

\* C23: N8 and N9 write disjoint nets (U2_3 and U2_6), so the net vector at
\* the end of the phase is the same whichever of the two runs first, for
\* every starting net state.
C23_OrderIndependent ==
    /\ hook = "N8_U2_3, N9_U2_6" =>
          TspNets = N8_U2_3_clock_is_high(N9_U2_6_clock_is_high(nets0))
    /\ hook = "N9_U2_6, N8_U2_3" =>
          TspNets = N9_U2_6_clock_is_high(N8_U2_3_clock_is_high(nets0))

\* The net each clock_is_high hook is named for.
OwnNet ==
    [h \in {"N8_U2_3", "N9_U2_6", "N10_U2_8", "N11_U2_11"} |->
        IF h = "N8_U2_3" THEN U2_3
        ELSE IF h = "N9_U2_6" THEN U2_6
        ELSE IF h = "N10_U2_8" THEN U2_8
        ELSE U2_11]

\* C24: each of the four clock_is_high hooks writes the one net it is named
\* for and no other net.
C24_WritesOwnNet ==
    hook \in DOMAIN OwnNet => Changed(nets0, TspNets) \subseteq {OwnNet[hook]}

\* C25: once opening the trace file, writing its header or a write_trace()
\* has failed, the failure has been reported by exactly one msg(), the file
\* is closed and trace_file is NULL; from then on no step attempts a write,
\* emits a message, changes the file, exits or touches the cycle loop.
C25_FailureDisablesTracing ==
    [][ /\ failures' > 0 =>
            /\ failures' = 1
            /\ msgs' = 1
            /\ trace_file' = "NULL"
            /\ fd_open' = FALSE
            /\ exited' = FALSE
        /\ failures > 0 =>
            /\ fwrites' = fwrites
            /\ msgs' = msgs
            /\ tfile' = tfile
            /\ UNCHANGED schedVars ]_vars

C25_Witness ==
    /\ failures = 1 /\ msgs = 1 /\ trace_file = "NULL"
    /\ tr_calls = 3 /\ fwrites = 2 /\ Len(snaps) = 1

\* C26: while tracing is on after k successful write_trace() calls, the file
\* is the 32-byte header, the netlist section of netlist_size bytes
\* (netlist_size a multiple of 8, L < netlist_size <= L + 9, the text then
\* only NULs), then the k snapshots in call order; the header fields hold
\* netlist_size, element_size and element_count.
C26_TraceLayout ==
    trace_file = "open" =>
        LET nbytes == Len(netlist)
            size == FromLE32(tfile, 4)
            esize == FromLE32(tfile, 8)
            ecount == FromLE32(tfile, 12)
            snap == esize * ecount
        IN  /\ SubSeq(tfile, 1, 4) = <<131, 130, 129, 128>>
            /\ esize = nets_element_size
            /\ ecount = nets_element_count
            /\ size % 8 = 0
            /\ nbytes < size /\ size <= nbytes + 9
            /\ Len(tfile) = HEADER_SIZE + size + Len(snaps) * snap
            /\ \A k \in 1..nbytes : tfile[HEADER_SIZE + k] = netlist[k]
            /\ \A k \in (nbytes + 1)..size : tfile[HEADER_SIZE + k] = 0
            /\ \A j \in 1..Len(snaps) :
                  SubSeq(tfile, HEADER_SIZE + size + (j - 1) * snap + 1,
                         HEADER_SIZE + size + j * snap) = NetBytes(snaps[j])

C26_Witness ==
    /\ trace_file = "open" /\ Len(netlist) = 7 /\ snaps = <<1, 2, 1>>
    /\ FromLE32(tfile, 4) = 16 /\ Len(tfile) = 72

\* C27: no handler puts a byte in a full transmit ring: the firmware never
\* stops in put()'s panic 7.
C27_TransmitFits == panicked # <<"PANIC_SERIAL_NUMBERED", 7>>

\* The register-id byte of the command a handler has copied
RegisterId == IF handler = "stPulse" THEN cmd[3] ELSE cmd[2]

\* C28: a Pulse, Set or Get command with a register id above 15 performs no
\* register operation, queues the NAK and nothing else, and leaves the
\* session DESYNCHRONIZING.
C28_BadRegisterRejected ==
    (/\ handler \in {"stPulse", "stSet", "stGet"}
     /\ RegisterId > MAX_REGISTER_ID
     /\ panicked = NoPanic)
        => /\ ops = {}
           /\ queued = <<STERR_BADCMD>>
           /\ state = STATE_DESYNCHRONIZING

\* A byte that dispatches to a handler other than stBadCmd and stUndef
Implemented(b) ==
    isCommand(b) /\ handlers[b - STCMD_BASE].handler \notin {"stBadCmd", "stUndef"}

\* C29: a call that comes to its dispatch with no handler in progress, at
\* least 2 free bytes in the transmit ring and, at the tail of the receive
\* ring, a byte that is no implemented command (READY) or not STCMD_SYNC
\* (UNSYNC) queues exactly the NAK, leaves the byte in the ring and sets the
\* state to DESYNCHRONIZING; a call made in DESYNCHRONIZING ends in UNSYNC
\* with both rings empty and no handler in progress.
C29_DesyncOneCall ==
    [][ /\ (/\ panicked = NoPanic
            /\ inProgress = "none"
            /\ seen' # -1
            /\ space' >= 2
            /\ \/ state = STATE_READY /\ ~Implemented(seen')
               \/ state = STATE_UNSYNC /\ seen' # STCMD_SYNC)
           => /\ queued' = <<STERR_BADCMD>>
              /\ len(rcvBuf') > 0
              /\ peek(rcvBuf') = seen'
              /\ rcvBuf'.tail = rcvBuf.tail
              /\ state' = STATE_DESYNCHRONIZING
              /\ panicked' = NoPanic
        /\ state = STATE_DESYNCHRONIZING
           => /\ state' = STATE_UNSYNC
              /\ len(rcvBuf') = 0
              /\ len(xmtBuf') = 0
              /\ inProgress' = "none" ]_vars

C29_Witness ==
    /\ state = STATE_UNSYNC /\ handler = "stBadCmd" /\ seen = 3
    /\ len(rcvBuf) = 0 /\ len(xmtBuf) = 0 /\ budget = MaxInput - 3

\* C30: when the call made in DESYNCHRONIZING resets the rings, the NAK is
\* not among the bytes it discards from the transmit ring.
C30_NakWritten ==
    (handler = "stBadCmd" /\ state = STATE_UNSYNC)
        => \A k \in 1..Len(dropped) : dropped[k] # STERR_BADCMD

\* C31: a step makes the state READY only by stSync handling STCMD_SYNC in
\* UNSYNC; a call made in UNSYNC finds the transmit ring empty and no handler
\* in progress, runs no handler but stSync (or the rejection stBadCmd) and
\* queues an ACK only for STCMD_SYNC.
C31_ReadyOnlyBySync ==
    [][ /\ (state # STATE_READY /\ state' = STATE_READY)
           => /\ state = STATE_UNSYNC
              /\ handler' = "stSync"
              /\ seen' = STCMD_SYNC
              /\ queued' = <<ACK(STCMD_SYNC)>>
        /\ state = STATE_UNSYNC
           => /\ len(xmtBuf) = 0
              /\ inProgress = "none"
              /\ handler' \in {"none", "stSync", "stBadCmd"}
              /\ handler' = "stSync" => seen' = STCMD_SYNC
              /\ \A k \in 1..Len(queued') :
                    queued'[k] # STERR_BADCMD
                       => queued'[k] = ACK(STCMD_SYNC) /\ seen' = STCMD_SYNC
      ]_vars

C31_Witness ==
    /\ state = STATE_READY /\ handler = "stSync" /\ seen = STCMD_SYNC
    /\ queued = <<ACK(STCMD_SYNC)>> /\ budget = MaxInput - 2

\* The port is writable infinitely often: serialTask() is not left for ever
\* with bytes in the transmit ring that no call hands to the port.
PortWritableAgain ==
    \/ []<>(len(xmtBuf) = 0 \/ panicked # NoPanic)
    \/ []<><<PortTakes>>_vars

\* The whole answer to a poll that found n bytes pending
ReplyOf(n) == <<ACK(227), n>> \o [k \in 1..n |-> LogByte(k - 1)]

\* C32: the bytes queued for an accepted POLL are the ACK, n and the n log
\* bytes in order; while the handler is in progress no command is taken from
\* the receive ring; if the port is writable infinitely often, the
\* handler queues all n bytes, frees the poll buffer and clears inProgress.
C32_PollAnswered ==
    /\ [](reply # <<>> =>
            /\ reply = SubSeq(ReplyOf(reply[2]), 1, Len(reply))
            /\ inProgress # "none" =>
                  /\ pb.inuse
                  /\ Len(reply) = 2 + pb.next
                  /\ pb.remaining = reply[2] - pb.next
            /\ inProgress = "none" => reply = ReplyOf(reply[2]) /\ ~pb.inuse)
    /\ [][inProgress # "none" =>
            /\ handler' = "none"
            /\ rcvBuf'.tail = rcvBuf.tail
            /\ state' = state]_vars
    /\ PortWritableAgain =>
          ((inProgress # "none") ~>
              (inProgress = "none" /\ ~pb.inuse /\ reply = ReplyOf(MaxLog)))

C32_Witness ==
    /\ inProgress = "none" /\ reply = ReplyOf(MaxLog) /\ handler = "none"
    /\ Len(queued) = 2 /\ ~pb.inuse /\ state = STATE_READY

\* C33: after any interleaving of serialTaskBody, serialShutdown and
\* SerialReset the poll buffer is in use exactly when a handler is in
\* progress, and neither allocPollBuffer nor freePollBuffer has panicked.
C33_PollBufferInUse ==
    /\ pb.inuse <=> inProgress # "none"
    /\ panicked # <<"PANIC_SERIAL_NUMBERED", 13>>
    /\ panicked # <<"PANIC_SERIAL_NUMBERED", 14>>

\* C34: a ring that no panic has stopped has head and tail in
\* 0..RING_BUF_SIZE-1, len in 0..RING_BUF_SIZE-1 and len + avail =
\* RING_BUF_SIZE-1; it holds as many bytes as were put and not consumed, so
\* the receive loop has put no byte in a full ring.
C34_RingBounds ==
    ring_panic = 0 =>
        /\ ring.head \in 0..(RING_BUF_SIZE - 1)
        /\ ring.tail \in 0..(RING_BUF_SIZE - 1)
        /\ len(ring) \in 0..(RING_BUF_SIZE - 1)
        /\ len(ring) + avail(ring) = RING_BUF_SIZE - 1
        /\ len(ring) = Len(fifo)

C34_Witness ==
    /\ ring_panic = 0 /\ len(ring) = RING_BUF_SIZE - 1
    /\ ring.head < ring.tail /\ isFull(ring)

\* C35: each ring is a bounded FIFO queue: peek returns the oldest byte put
\* and not consumed, copy(r, bp, bMax) the oldest min(len(r), bMax) of them
\* in put order, and consume removes the n oldest.
C35_RingIsFifo ==
    ring_panic = 0 =>
        /\ Live(ring) = fifo
        /\ fifo # <<>> => peek(ring) = Head(fifo)
        /\ \A bMax \in 0..RING_BUF_SIZE :
              copy(ring, bMax) =
                  SubSeq(fifo, 1, IF Len(fifo) < bMax THEN Len(fifo) ELSE bMax)

C35_Witness ==
    /\ ring_panic = 0 /\ Len(fifo) = 4 /\ ring.head < ring.tail
    /\ Head(fifo) # fifo[4] /\ peek(ring) = Head(fifo)

\* C36: a call of process() for a valid command byte with fewer bytes in the
\* receive ring than the command's length, or fewer than
\* MAX_FIXED_RESPONSE_BYTES free in the transmit ring, runs no handler and
\* changes nothing; a call with both conditions met runs the command's
\* handler.
ProcessCalled ==
    /\ panicked = NoPanic /\ state = STATE_READY /\ inProgress = "none"
    /\ held' > 0 /\ isCommand(seen')

C36_ProcessWaits ==
    [][ProcessCalled =>
          LET entry == handlers[seen' - STCMD_BASE]
          IN  IF held' < entry.length \/ space' < MAX_FIXED_RESPONSE_BYTES
              THEN /\ handler' = "none" /\ queued' = <<>> /\ ops' = {}
                   /\ state' = state /\ inProgress' = inProgress /\ pb' = pb
                   /\ rcvBuf'.tail = rcvBuf.tail /\ len(rcvBuf') = held'
                   /\ avail(xmtBuf') = space' /\ panicked' = NoPanic
              ELSE handler' = entry.handler]_vars

C36_Witness ==
    /\ state = STATE_READY /\ handler = "none" /\ inProgress = "none"
    /\ seen = 248 /\ held = 2 /\ space < MAX_FIXED_RESPONSE_BYTES
    /\ peek(rcvBuf) = 248 /\ len(rcvBuf) = held

\* C37: execute(table) calls the hooks of slots 0..k-1 in increasing order,
\* k the first empty slot, and the slot it reads has an index below
\* MAX_RESOLVERS, whatever the table holds.
C37_ExecuteInTable ==
    pc \in PhaseSet =>
        /\ i \in Slots
        /\ \A j \in 0..(i - 1) : resolvers[pc][j] # 0
        /\ \A j \in 1..i : calls[Len(calls) - i + j] = <<pc, j - 1>>

\* C38: with parts made by make_comb and make_seq only, next_state - 1 <=
\* 2 * (next_part - 1); the state pool is never exhausted, and a make_comb
\* or make_seq that fails has failed for want of a part.
C38_StatePoolSuffices ==
    /\ next_state - 1 <= 2 * (next_part - 1)
    /\ next_part <= MAX_PART
    /\ next_state < MAX_STATE
    /\ (exited /\ last.op \in {"make_comb", "make_seq"}) =>
           /\ next_part = MAX_PART
           /\ Made = DOMAIN returned

C38_Witness ==
    /\ exited /\ last.op = "make_seq" /\ next_part = MAX_PART
    /\ next_state = MAX_STATE - 1

\* C39: after a rising clock edge with RST inactive the outputs (Cout, Sum4,
\* Sum3, Sum2, Sum1) are the 5-bit number A + B + Cin of the inputs at that
\* edge, A = (A4 A3 A2 A1) and B = (B4 B3 B2 B1).
OutValue ==
    outs["Cout"] * 16 + outs["Sum4"] * 8 + outs["Sum3"] * 4
        + outs["Sum2"] * 2 + outs["Sum1"]

InSum ==
    (pins["A4"] * 8 + pins["A3"] * 4 + pins["A2"] * 2 + pins["A1"])
        + (pins["B4"] * 8 + pins["B3"] * 4 + pins["B2"] * 2 + pins["B1"])
        + pins["Cin"]

C39_SumAfterEdge ==
    (edges > 0 /\ RST = 0) => OutValue = InSum

====
